---- MODULE Spec2Model ----
(***************************************************************************)
(* Model of the static-file cache of the file-serving handler (fs.go):     *)
(* the cacheManager implementations, the fsFile reference count, the       *)
(* readers' Close paths, the background sweep and the part of              *)
(* fsHandler.handleRequest that takes and gives back references.           *)
(***************************************************************************)
EXTENDS Integers, FiniteSets, Sequences, TLC

(* ------------------------------ bounds -------------------------------- *)
MaxEntries == 2
MaxTime == 2

(* ------------------------- program constants -------------------------- *)
\* FSHandlerCacheDuration = 10 * time.Second, in clock units of ten seconds
CacheDuration == 1
\* maxSmallFileSize = 2 * 4096
maxSmallFileSize == 8192

(* ------------------------------ universe ------------------------------ *)
Procs == {"r1", "r2"}
Sweeper == "sweeper"
NoOwner == "none"

\* CacheKind: defaultCacheKind, brotliCacheKind, gzipCacheKind, zstdCacheKind
Kinds == {"default", "brotli", "gzip", "zstd"}

\* the order in which cleanCache scans the four maps
SweepOrder == <<"default", "brotli", "gzip", "zstd">>

\* the cache kinds the handler negotiates: FS.Compress with brotli and zstd
\* off serves from the default and the gzip map only
ReqKinds == {"default", "gzip"}

\* the request paths of the served tree
Keys == {"/a"}

\* no new request is admitted while an entry counts as many readers as there
\* are request goroutines (the count of an entry whose readers never give it
\* back would grow without limit)
MaxReaders == Cardinality(Procs)

Entries == 1 .. MaxEntries
Nil == 0

\* fileInfo.Size() of the file opened for a cache kind: the source file is
\* sent by a bigFileReader, its compressed sibling is a small file
FileSize(k) == IF k = "default" THEN 10000 ELSE 100

\* whether the fs.File the virtual filesystem opens is an io.Seeker (an
\* *os.File always is; the files of the modelled fs.FS, like those of an
\* archive, are not)
virtualFileIsSeeker == FALSE

VARIABLES
    skipCache,      \* FS.SkipCache: noopCacheManager instead of inMemoryCacheManager
    fsIsOS,         \* h.filesystem is *osFS
    now,            \* the clock read by time.Now()
    nextEntry,      \* number of fsFile objects constructed so far, plus one
    ft,             \* fsFile.t
    contentLength,  \* fsFile.contentLength
    readersCount,   \* fsFile.readersCount
    released,       \* Release() was called on the fsFile
    cache,          \* the four maps of inMemoryCacheManager
    cacheLock,      \* owner of cacheManager.cacheLock
    pendingFiles,   \* handleCleanCache's pendingFiles
    filesToRelease, \* cleanCache's filesToRelease
    swpc,           \* position of the sweep goroutine
    swI,            \* index of the map cleanCache scans next
    pc,             \* position of each request goroutine
    reqKind,        \* fileCacheKind of the request
    reqKey,         \* originalPathStr of the request
    ff,             \* handleRequest's ff
    cand,           \* SetFileToCache's parameter ff
    ff1,            \* SetFileToCache's ff1
    tmp,            \* the value of readersCount read by ++ / --
    byteRange,      \* ParseByteRange's byteRange: the Range header value
    pbrLength,      \* ParseByteRange's contentLength
    pbrResult,      \* what ParseByteRange returned (NotCalled before the call)
    handler,        \* the fsHandler's compress, compressBrotli, compressZstd, acceptByteRange
    request,        \* the request: HEAD or GET, Range, If-Modified-Since, Accept-Encoding
    served,         \* the fsFile the request is answered from
    hpc,            \* position of the request followed through handleRequest
    locals,         \* handleRequest's locals
    response,       \* ctx.Response
    compCfg,        \* compression setup: same root, write permissions, the artifacts at start
    srcModTime,     \* modification time of each source file
    artifact,       \* the compressed file of each source file on the disk
    filesLockMap,   \* filesLockMap: the mutex stored for each compressed path
    mutexOwner,     \* owner of each mutex getFileLock handed out
    compressions,   \* how many times each source file has been compressed
    compReq,        \* each request in openFSFile: position, locals, outcome
    pathRewrite,    \* h.pathRewrite
    ctxPath,        \* ctx.Path()
    front,          \* handleRequest up to the entry it serves: position, locals, answer
    lockOwner,      \* owner of cacheLock, of each per-path mutex, of each bigFilesLock
    lockGo,         \* each goroutine seen through its locking: position, path, ff, ff1
    lockHeap,       \* the cache map and the fsFile objects the locks belong to
    reader,         \* the reader object: the fields of fsSmallFileReader or bigFileReader
    reading,        \* the use made of the reader: file, byte range, position, bytes delivered
    poolFile,       \* the fsFile objects: in the map or not, readersCount, ff.f, ff.bigFiles
    poolObj,        \* the reader objects: their fields, their handle, the entry they belong to
    poolReq,        \* each request goroutine: position, its entry and its reader
    poolMisc,       \* the cache map's entry, smallFileReaderPool, the sweep's filesToRelease
    opening         \* one call of openFSFile: position, inputs, the handles that are open, the result

cfgVars == <<skipCache, fsIsOS>>
fileVars == <<nextEntry, ft, contentLength>>
sweepVars == <<pendingFiles, filesToRelease, swpc, swI>>
reqVars == <<pc, reqKind, reqKey, ff, cand, ff1, tmp>>
rangeVars == <<byteRange, pbrLength, pbrResult>>
cacheVars == <<skipCache, fsIsOS, now, nextEntry, ft, contentLength,
               readersCount, released, cache, cacheLock, pendingFiles,
               filesToRelease, swpc, swI, pc, reqKind, reqKey, ff, cand,
               ff1, tmp>>
respVars == <<handler, request, served, hpc, locals, response>>
compVars == <<compCfg, srcModTime, artifact, filesLockMap, mutexOwner,
              compressions, compReq>>
frontVars == <<pathRewrite, ctxPath, front>>
lockVars == <<lockOwner, lockGo, lockHeap>>
readVars == <<reader, reading>>
poolVars == <<poolFile, poolObj, poolReq, poolMisc>>
openVars == <<opening>>
otherVars == <<rangeVars, respVars, compVars, frontVars,
              lockVars, readVars, poolVars,
              openVars>>
\* what a call of ParseByteRange, what the request followed through
\* handleRequest, and what the compression of a file, leave alone
notRange == <<cacheVars, respVars, compVars, frontVars, lockVars,
    readVars,
    poolVars,
    openVars>>
notResp == <<cacheVars, rangeVars, compVars, frontVars, lockVars,
    readVars,
    poolVars,
    openVars>>
notComp == <<cacheVars, rangeVars, respVars, frontVars, lockVars,
    readVars,
    poolVars,
    openVars>>
notFront == <<cacheVars, rangeVars, respVars, compVars, lockVars,
    readVars,
    poolVars,
    openVars>>
notLock == <<cacheVars, rangeVars, respVars, compVars, frontVars,
    readVars,
    poolVars,
    openVars>>
notRead == <<cacheVars, rangeVars, respVars, compVars, frontVars, lockVars,
    poolVars,
    openVars>>
notPool == <<cacheVars, rangeVars, respVars, compVars, frontVars, lockVars, readVars,
    openVars>>
notOpen == <<cacheVars, rangeVars, respVars, compVars, frontVars, lockVars, readVars, poolVars>>
vars == <<cacheVars, otherVars>>

(* ------------------------------ helpers ------------------------------- *)

\* fsFile.isBig
IsBig(e) ==
    IF fsIsOS THEN contentLength[e] > maxSmallFileSize ELSE TRUE

\* r.f.(io.Seeker) of a bigFileReader of the entry
IsSeeker(e) == fsIsOS \/ virtualFileIsSeeker

\* sync.Mutex.Lock can proceed
LockGuardFreeForAll(l) == TRUE
LockGuard(l) == l = NoOwner

\* cm.WithLock: the lock taken around the decrement
WithLockGuardNoLock(l) == TRUE
WithLockGuard(l) == LockGuard(l)

\* t.Sub(ff.t) > cacheDuration
IsStaleInclusive(t, created) == t - created >= CacheDuration
IsStale(t, created) == t - created > CacheDuration

\* ff.readersCount > 0: the entry cannot be closed yet
HasReadersNever(n) == FALSE
HasReaders(n) == n > 0

\* the pending files of the previous run that stay pending, and those that
\* are released now
RemainingFilesDropped(pending) == {}
RemainingFiles(pending) == {e \in pending : HasReaders(readersCount[e])}
ReleasableFiles(pending) == {e \in pending : ~HasReaders(readersCount[e])}

\* ff.readersCount--, clamped at zero
DecValueUnclamped(n) == n - 1
DecValue(n) == IF n - 1 < 0 THEN 0 ELSE n - 1

\* ff.readersCount++ of GetFileFromCache
GetIncValueNone(n) == n
GetIncValue(n) == n + 1

\* the entry the map holds for the key after SetFileToCache
SetStoredLastWins(old, candidate) == candidate
SetStored(old, candidate) == IF old = Nil THEN candidate ELSE old

\* the entry whose readersCount SetFileToCache increments
SetTarget(p) == IF ff1[p] = Nil THEN cand[p] ELSE ff1[p]

(* ------------------------------- Init --------------------------------- *)

\* the value of a variable in the specifications that do not use it
Unused == <<>>

\* ParseByteRange has not returned yet
NotCalled == [startPos |-> 0, endPos |-> 0, err |-> "not called"]
\* ParseByteRange is not called at all
RangeIdle ==
    /\ byteRange = Unused
    /\ pbrLength = 0
    /\ pbrResult = Unused

\* the locals and the response when handleRequest starts
NoLocals ==
    [mustCompress |-> FALSE, fileCacheKind |-> "default", fileEncoding |-> "",
     consulted |-> "", hit |-> FALSE, hasEntry |-> FALSE, readersBefore |-> 0,
     reader |-> "none", statusCode |-> 0, contentLength |-> 0,
     seekFailed |-> FALSE, emitted |-> FALSE]
NoResponse ==
    [statusCode |-> 0, bodyStream |-> FALSE, skipBody |-> FALSE,
     contentLength |-> 0, contentEncoding |-> "", vary |-> FALSE,
     acceptRanges |-> FALSE, contentRange |-> <<>>]
\* no request is followed through handleRequest
RespIdle ==
    /\ handler = Unused
    /\ request = Unused
    /\ served = Unused
    /\ hpc = "off"
    /\ locals = Unused
    /\ response = Unused

\* no request is followed through openFSFile
CompIdle ==
    /\ compCfg = Unused
    /\ srcModTime = Unused
    /\ artifact = Unused
    /\ filesLockMap = Unused
    /\ mutexOwner = Unused
    /\ compressions = Unused
    /\ compReq = Unused

\* no request is followed through the front of handleRequest
ReadIdle ==
    /\ reader = Unused
    /\ reading = Unused

PoolIdle ==
    /\ poolFile = Unused
    /\ poolObj = Unused
    /\ poolReq = Unused
    /\ poolMisc = Unused

OpenIdle ==
    /\ opening = Unused

LockIdle ==
    /\ lockOwner = Unused
    /\ lockGo = Unused
    /\ lockHeap = Unused

FrontIdle ==
    /\ pathRewrite = Unused
    /\ ctxPath = Unused
    /\ front = Unused

\* the cache manager right after newCacheManager, no request in flight
CacheStart ==
    /\ now = 0
    /\ nextEntry = 1
    /\ ft = [e \in Entries |-> 0]
    /\ contentLength = [e \in Entries |-> 0]
    /\ readersCount = [e \in Entries |-> 0]
    /\ released = [e \in Entries |-> FALSE]
    /\ cache = [k \in Kinds |-> [key \in Keys |-> Nil]]
    /\ cacheLock = NoOwner
    /\ pendingFiles = {}
    /\ filesToRelease = {}
    /\ swpc = IF skipCache THEN "off" ELSE "sleep"
    /\ swI = 1
    /\ pc = [p \in Procs |-> "idle"]
    /\ reqKind = [p \in Procs |-> "default"]
    /\ reqKey = [p \in Procs |-> "/a"]
    /\ ff = [p \in Procs |-> Nil]
    /\ cand = [p \in Procs |-> Nil]
    /\ ff1 = [p \in Procs |-> Nil]
    /\ tmp = [p \in Procs |-> 0]

Init ==
    /\ RangeIdle
    /\ RespIdle
    /\ CompIdle
    /\ FrontIdle
    /\ LockIdle
    /\ OpenIdle
    /\ PoolIdle
    /\ ReadIdle
    /\ skipCache \in BOOLEAN
    /\ fsIsOS \in BOOLEAN
    /\ CacheStart

\* a handler on the OS filesystem with the in-memory cache, left alone
CacheIdle ==
    /\ skipCache = FALSE
    /\ fsIsOS = TRUE
    /\ CacheStart

(* ------------------------------ the clock ----------------------------- *)
Tick ==
    /\ now < MaxTime
    /\ now' = now + 1
    /\ UNCHANGED <<otherVars, cfgVars, fileVars, readersCount, released, cache,
                   cacheLock, sweepVars, reqVars>>

(* ----------------------- fsHandler.handleRequest ---------------------- *)

\* the request is over (the handler has returned and the reader, if any, is
\* closed): the goroutine's locals go away
Return(p) ==
    /\ pc' = [pc EXCEPT ![p] = "idle"]
    /\ reqKind' = [reqKind EXCEPT ![p] = "default"]
    /\ reqKey' = [reqKey EXCEPT ![p] = "/a"]
    /\ ff' = [ff EXCEPT ![p] = Nil]
    /\ cand' = [cand EXCEPT ![p] = Nil]
    /\ ff1' = [ff1 EXCEPT ![p] = Nil]

\* the request arrives: path and negotiated cache kind
Start(p) ==
    /\ pc[p] = "idle"
    /\ \A e \in Entries : readersCount[e] < MaxReaders
    /\ \E k \in ReqKinds, key \in Keys :
        /\ reqKind' = [reqKind EXCEPT ![p] = k]
        /\ reqKey' = [reqKey EXCEPT ![p] = key]
    /\ pc' = [pc EXCEPT ![p] = "get"]
    /\ UNCHANGED <<otherVars, cfgVars, now, fileVars, readersCount, released, cache,
                   cacheLock, sweepVars, ff, cand, ff1, tmp>>

\* noopCacheManager.GetFileFromCache: return nil, false
GetNoop(p) ==
    /\ pc[p] = "get"
    /\ skipCache
    /\ pc' = [pc EXCEPT ![p] = "open"]
    /\ UNCHANGED <<otherVars, cfgVars, now, fileVars, readersCount, released, cache,
                   cacheLock, sweepVars, reqKind, reqKey, ff, cand, ff1, tmp>>

\* inMemoryCacheManager.GetFileFromCache: cm.cacheLock.Lock();
\* ff, ok := fileCache[path]; on a hit the read half of ff.readersCount++
GetLock(p) ==
    /\ pc[p] = "get"
    /\ ~skipCache
    /\ LockGuard(cacheLock)
    /\ cacheLock' = p
    /\ LET e == cache[reqKind[p]][reqKey[p]] IN
        /\ ff' = [ff EXCEPT ![p] = e]
        /\ tmp' = [tmp EXCEPT ![p] = IF e # Nil THEN readersCount[e] ELSE 0]
    /\ pc' = [pc EXCEPT ![p] = "get_crit"]
    /\ UNCHANGED <<otherVars, cfgVars, now, fileVars, readersCount, released, cache,
                   sweepVars, reqKind, reqKey, cand, ff1>>

\* on a hit the write half of ff.readersCount++; cm.cacheLock.Unlock();
\* return ff, ok
GetUnlock(p) ==
    /\ pc[p] = "get_crit"
    /\ readersCount' = IF ff[p] # Nil
                       THEN [readersCount EXCEPT ![ff[p]] = GetIncValue(tmp[p])]
                       ELSE readersCount
    /\ cacheLock' = IF cacheLock = p THEN NoOwner ELSE cacheLock
    /\ tmp' = [tmp EXCEPT ![p] = 0]
    /\ pc' = [pc EXCEPT ![p] = IF ff[p] # Nil THEN "cond" ELSE "open"]
    /\ UNCHANGED <<otherVars, cfgVars, now, fileVars, released, cache, sweepVars,
                   reqKind, reqKey, ff, cand, ff1>>

\* h.openFSFile succeeds: newFSFile builds an fsFile with t = time.Now().
\* (On a virtual filesystem the compressed kinds go through
\* newCompressedFSFileCache, which fails for a file that is no io.Seeker.)
OpenOk(p) ==
    /\ pc[p] = "open"
    /\ nextEntry <= MaxEntries
    /\ fsIsOS \/ virtualFileIsSeeker \/ reqKind[p] = "default"
    /\ ft' = [ft EXCEPT ![nextEntry] = now]
    /\ contentLength' = [contentLength EXCEPT ![nextEntry] = FileSize(reqKind[p])]
    /\ cand' = [cand EXCEPT ![p] = nextEntry]
    /\ nextEntry' = nextEntry + 1
    /\ pc' = [pc EXCEPT ![p] = "set"]
    /\ UNCHANGED <<otherVars, cfgVars, now, readersCount, released, cache, cacheLock,
                   sweepVars, reqKind, reqKey, ff, ff1, tmp>>

\* h.openFSFile fails: the handler answers 404 (or 302 / 403) and returns
OpenFail(p) ==
    /\ pc[p] = "open"
    /\ Return(p)
    /\ UNCHANGED <<otherVars, cfgVars, now, fileVars, readersCount, released, cache,
                   cacheLock, sweepVars, tmp>>

\* noopCacheManager.SetFileToCache: return ff
SetNoopStores(p) ==
    /\ pc[p] = "set"
    /\ skipCache
    /\ cache' = [cache EXCEPT ![reqKind[p]][reqKey[p]] = cand[p]]
    /\ ff' = [ff EXCEPT ![p] = cand[p]]
    /\ cand' = [cand EXCEPT ![p] = Nil]
    /\ pc' = [pc EXCEPT ![p] = "cond"]
    /\ UNCHANGED <<otherVars, cfgVars, now, fileVars, readersCount, released,
                   cacheLock, sweepVars, reqKind, reqKey, ff1, tmp>>
SetNoop(p) ==
    /\ pc[p] = "set"
    /\ skipCache
    /\ ff' = [ff EXCEPT ![p] = cand[p]]
    /\ cand' = [cand EXCEPT ![p] = Nil]
    /\ pc' = [pc EXCEPT ![p] = "cond"]
    /\ UNCHANGED <<otherVars, cfgVars, now, fileVars, readersCount, released, cache,
                   cacheLock, sweepVars, reqKind, reqKey, ff1, tmp>>

\* inMemoryCacheManager.SetFileToCache: cm.cacheLock.Lock();
\* ff1, ok := fileCache[path]; if !ok { fileCache[path] = ff }; and the read
\* half of the readersCount++ of the branch taken
SetLock(p) ==
    /\ pc[p] = "set"
    /\ ~skipCache
    /\ LockGuard(cacheLock)
    /\ cacheLock' = p
    /\ LET old == cache[reqKind[p]][reqKey[p]]
           target == IF old = Nil THEN cand[p] ELSE old
       IN
        /\ ff1' = [ff1 EXCEPT ![p] = old]
        /\ cache' = [cache EXCEPT ![reqKind[p]][reqKey[p]] = SetStored(old, cand[p])]
        /\ tmp' = [tmp EXCEPT ![p] = readersCount[target]]
    /\ pc' = [pc EXCEPT ![p] = "set_crit"]
    /\ UNCHANGED <<otherVars, cfgVars, now, fileVars, readersCount, released, sweepVars,
                   reqKind, reqKey, ff, cand>>

\* the write half of ff.readersCount++ / ff1.readersCount++;
\* cm.cacheLock.Unlock()
SetUnlock(p) ==
    /\ pc[p] = "set_crit"
    /\ readersCount' = [readersCount EXCEPT ![SetTarget(p)] = tmp[p] + 1]
    /\ cacheLock' = IF cacheLock = p THEN NoOwner ELSE cacheLock
    /\ tmp' = [tmp EXCEPT ![p] = 0]
    /\ IF ff1[p] # Nil
       THEN /\ pc' = [pc EXCEPT ![p] = "set_release"]
            /\ UNCHANGED <<ff, cand>>
       ELSE /\ pc' = [pc EXCEPT ![p] = "cond"]
            /\ ff' = [ff EXCEPT ![p] = cand[p]]
            /\ cand' = [cand EXCEPT ![p] = Nil]
    /\ UNCHANGED <<otherVars, cfgVars, now, fileVars, released, cache, sweepVars,
                   reqKind, reqKey, ff1>>

\* if ok { ff.Release(); ff = ff1 }; return ff
SetRelease(p) ==
    /\ pc[p] = "set_release"
    /\ released' = [released EXCEPT ![cand[p]] = TRUE]
    /\ ff' = [ff EXCEPT ![p] = ff1[p]]
    /\ cand' = [cand EXCEPT ![p] = Nil]
    /\ ff1' = [ff1 EXCEPT ![p] = Nil]
    /\ pc' = [pc EXCEPT ![p] = "cond"]
    /\ UNCHANGED <<otherVars, cfgVars, now, fileVars, readersCount, cache, cacheLock,
                   sweepVars, reqKind, reqKey, tmp>>

\* if !ctx.IfModifiedSince(ff.lastModified) { ff.decReadersCount(); 304 }
NotModified(p) ==
    /\ pc[p] = "cond"
    /\ pc' = [pc EXCEPT ![p] = "dec_lock"]
    /\ UNCHANGED <<otherVars, cfgVars, now, fileVars, readersCount, released, cache,
                   cacheLock, sweepVars, reqKind, reqKey, ff, cand, ff1, tmp>>

\* fsFile.NewReader: ff.bigFileReader() fails (the file cannot be reopened),
\* so NewReader calls ff.decReadersCount() and the handler answers 500
NewReaderFail(p) ==
    /\ pc[p] = "cond"
    /\ IsBig(ff[p])
    /\ pc' = [pc EXCEPT ![p] = "dec_lock"]
    /\ UNCHANGED <<otherVars, cfgVars, now, fileVars, readersCount, released, cache,
                   cacheLock, sweepVars, reqKind, reqKey, ff, cand, ff1, tmp>>

\* NewReader succeeded; 416, range seek failure (500) and HEAD: the handler
\* closes the reader itself
HandlerCloses(p) ==
    /\ pc[p] = "cond"
    /\ pc' = [pc EXCEPT ![p] = "close"]
    /\ UNCHANGED <<otherVars, cfgVars, now, fileVars, readersCount, released, cache,
                   cacheLock, sweepVars, reqKind, reqKey, ff, cand, ff1, tmp>>

\* NewReader succeeded; ctx.SetBodyStream(r, contentLength): the handler
\* returns, the reader stays open until the response sink closes it
SetBodyStream(p) ==
    /\ pc[p] = "cond"
    /\ pc' = [pc EXCEPT ![p] = "stream"]
    /\ UNCHANGED <<otherVars, cfgVars, now, fileVars, readersCount, released, cache,
                   cacheLock, sweepVars, reqKind, reqKey, ff, cand, ff1, tmp>>

\* the response sink has drained or abandoned the body stream and closes it
SinkCloses(p) ==
    /\ pc[p] = "stream"
    /\ pc' = [pc EXCEPT ![p] = "close"]
    /\ UNCHANGED <<otherVars, cfgVars, now, fileVars, readersCount, released, cache,
                   cacheLock, sweepVars, reqKind, reqKey, ff, cand, ff1, tmp>>

(* --------------------------- reader Close ----------------------------- *)

\* fsSmallFileReader.Close: ff.decReadersCount() first
CloseSmall(p) ==
    /\ pc[p] = "close"
    /\ ~IsBig(ff[p])
    /\ pc' = [pc EXCEPT ![p] = "dec_lock"]
    /\ UNCHANGED <<otherVars, cfgVars, now, fileVars, readersCount, released, cache,
                   cacheLock, sweepVars, reqKind, reqKey, ff, cand, ff1, tmp>>

\* bigFileReader.Close, r.f is an io.Seeker: whatever Seek returns (the
\* reader goes back to ff.bigFiles, or its handle is closed), the method ends
\* with r.ff.decReadersCount()
CloseBigSeeker(p) ==
    /\ pc[p] = "close"
    /\ IsBig(ff[p])
    /\ IsSeeker(ff[p])
    /\ pc' = [pc EXCEPT ![p] = "dec_lock"]
    /\ UNCHANGED <<otherVars, cfgVars, now, fileVars, readersCount, released, cache,
                   cacheLock, sweepVars, reqKind, reqKey, ff, cand, ff1, tmp>>

\* bigFileReader.Close, r.f is no io.Seeker: r.f.Close() and
\* return errors.New("must implement io.Seeker")
CloseBigNoSeeker(p) ==
    /\ pc[p] = "close"
    /\ IsBig(ff[p])
    /\ ~IsSeeker(ff[p])
    /\ Return(p)
    /\ UNCHANGED <<otherVars, cfgVars, now, fileVars, readersCount, released, cache,
                   cacheLock, sweepVars, tmp>>

(* ----------------------- fsFile.decReadersCount ----------------------- *)

\* WithLock: cacheLock.Lock(); the read half of ff.readersCount--
DecLock(p) ==
    /\ pc[p] = "dec_lock"
    /\ WithLockGuard(cacheLock)
    /\ cacheLock' = p
    /\ tmp' = [tmp EXCEPT ![p] = readersCount[ff[p]]]
    /\ pc' = [pc EXCEPT ![p] = "dec_crit"]
    /\ UNCHANGED <<otherVars, cfgVars, now, fileVars, readersCount, released, cache,
                   sweepVars, reqKind, reqKey, ff, cand, ff1>>

\* the write half of ff.readersCount--, with the clamp at zero;
\* WithLock: cacheLock.Unlock(); decReadersCount returns to Close or to the
\* handler, which returns
DecUnlock(p) ==
    /\ pc[p] = "dec_crit"
    /\ readersCount' = [readersCount EXCEPT ![ff[p]] = DecValue(tmp[p])]
    /\ cacheLock' = IF cacheLock = p THEN NoOwner ELSE cacheLock
    /\ tmp' = [tmp EXCEPT ![p] = 0]
    /\ Return(p)
    /\ UNCHANGED <<otherVars, cfgVars, now, fileVars, released, cache, sweepVars>>

(* ------------------- inMemoryCacheManager.cleanCache ------------------ *)

\* the entries of one map that cleanCacheNolock finds stale at time t
StaleIn(k, t) ==
    {cache[k][key] : key \in {x \in Keys : cache[k][x] # Nil /\ IsStale(t, ft[cache[k][x]])}}

\* handleCleanCache wakes up (ticker or Sleep); cleanCache takes the lock and
\* runs the loop over pendingFiles: entries whose readers are gone are
\* released, the others stay pending
SweepLock ==
    /\ swpc = "sleep"
    /\ LockGuard(cacheLock)
    /\ cacheLock' = Sweeper
    /\ pendingFiles' = RemainingFiles(pendingFiles)
    /\ filesToRelease' = ReleasableFiles(pendingFiles)
    /\ swpc' = "scan"
    /\ swI' = 1
    /\ UNCHANGED <<otherVars, cfgVars, now, fileVars, readersCount, released, cache,
                   reqVars>>

\* cleanCacheNolock on the next of the four maps, with t := time.Now(); after
\* the fourth, cm.cacheLock.Unlock()
SweepScan ==
    /\ swpc = "scan"
    /\ LET k == SweepOrder[swI]
           stale == StaleIn(k, now)
       IN
        /\ pendingFiles' = pendingFiles \cup {e \in stale : HasReaders(readersCount[e])}
        /\ filesToRelease' = filesToRelease \cup {e \in stale : ~HasReaders(readersCount[e])}
        /\ cache' = [cache EXCEPT ![k] =
                        [key \in Keys |-> IF cache[k][key] \in stale THEN Nil ELSE cache[k][key]]]
    /\ IF swI = Len(SweepOrder)
       THEN /\ swpc' = "release"
            /\ swI' = 1
            /\ cacheLock' = IF cacheLock = Sweeper THEN NoOwner ELSE cacheLock
       ELSE /\ swpc' = "scan"
            /\ swI' = swI + 1
            /\ cacheLock' = cacheLock
    /\ UNCHANGED <<otherVars, cfgVars, now, fileVars, readersCount, released, reqVars>>

\* for _, ff := range filesToRelease { ff.Release() }; return pendingFiles:
\* back to the ticker / Sleep
SweepRelease ==
    /\ swpc = "release"
    /\ released' = [e \in Entries |-> released[e] \/ e \in filesToRelease]
    /\ filesToRelease' = {}
    /\ swpc' = "sleep"
    /\ UNCHANGED <<otherVars, cfgVars, now, fileVars, readersCount, cache, cacheLock,
                   pendingFiles, swI, reqVars>>

\* handleCleanCache: cleanStop (when the FS has one) was closed, the goroutine
\* returns; without a stop channel this step never happens
SweepStop ==
    /\ swpc = "sleep"
    /\ swpc' = "stopped"
    /\ UNCHANGED <<otherVars, cfgVars, now, fileVars, readersCount, released, cache,
                   cacheLock, pendingFiles, filesToRelease, swI, reqVars>>

(* --------------------------- specification ---------------------------- *)

Request(p) ==
    \/ Start(p)
    \/ GetNoop(p)
    \/ GetLock(p)
    \/ GetUnlock(p)
    \/ OpenOk(p)
    \/ OpenFail(p)
    \/ SetNoop(p)
    \/ SetLock(p)
    \/ SetUnlock(p)
    \/ SetRelease(p)
    \/ NotModified(p)
    \/ NewReaderFail(p)
    \/ HandlerCloses(p)
    \/ SetBodyStream(p)
    \/ SinkCloses(p)
    \/ CloseSmall(p)
    \/ CloseBigSeeker(p)
    \/ CloseBigNoSeeker(p)
    \/ DecLock(p)
    \/ DecUnlock(p)

Sweep ==
    \/ SweepLock
    \/ SweepScan
    \/ SweepRelease
    \/ SweepStop

Next ==
    \/ Tick
    \/ \E p \in Procs : Request(p)
    \/ Sweep

Spec == Init /\ [][Next]_vars

\* The scheduler runs every goroutine that can take a step; sync.Mutex hands
\* the lock to a waiter that keeps asking for it (starvation mode), and the
\* ticker / Sleep of handleCleanCache keeps waking the sweep.
Fairness ==
    /\ \A p \in Procs : WF_vars(GetUnlock(p) \/ SetUnlock(p) \/ DecUnlock(p))
    /\ SF_vars(SweepLock)
    /\ WF_vars(SweepScan)
    /\ WF_vars(SweepRelease)

\* The behaviours of a handler with the in-memory cache manager
\* (FS.SkipCache unset) that serves one request at a time, under the fairness
\* above. (A lone request never finds its key taken in SetFileToCache.)
InMemoryInit == Init /\ ~skipCache

SoloRequest(p) ==
    \/ Start(p)
    \/ GetLock(p)
    \/ GetUnlock(p)
    \/ OpenOk(p)
    \/ OpenFail(p)
    \/ SetLock(p)
    \/ SetUnlock(p)
    \/ NotModified(p)
    \/ NewReaderFail(p)
    \/ HandlerCloses(p)
    \/ SetBodyStream(p)
    \/ SinkCloses(p)
    \/ CloseSmall(p)
    \/ CloseBigSeeker(p)
    \/ CloseBigNoSeeker(p)
    \/ DecLock(p)
    \/ DecUnlock(p)

LiveNext ==
    \/ Tick
    \/ SoloRequest("r1")
    \/ Sweep

LiveSpec == InMemoryInit /\ [][LiveNext]_vars /\ Fairness

(* --------------------------- ParseByteRange --------------------------- *)

\* bounds of the headers and lengths ParseByteRange is applied to
MaxBodyLen == 4
MaxContentLength == 4

strBytes == <<"b", "y", "t", "e", "s">>
\* the prefix of a Range header value that ParseByteRange accepts
BytesEq == strBytes \o <<"=">>
DigitChars == <<"0", "1", "2", "3", "4", "5", "6", "7", "8", "9">>

IsDigit(c) == \E i \in 1 .. Len(DigitChars) : DigitChars[i] = c
DigitValue(c) == (CHOOSE i \in 1 .. Len(DigitChars) : DigitChars[i] = c) - 1

\* the decimal value of a buffer of digits
RECURSIVE UintValue(_)
UintValue(buf) ==
    IF buf = <<>> THEN 0
    ELSE 10 * UintValue(SubSeq(buf, 1, Len(buf) - 1)) + DigitValue(buf[Len(buf)])

\* ParseUint: the value of a non-empty buffer of decimal digits, an error for
\* anything else (values stay far below the width of int)
ParseUint(buf) ==
    IF buf = <<>> THEN [v |-> -1, err |-> "empty integer"]
    ELSE IF ~IsDigit(buf[1]) THEN [v |-> -1, err |-> "unexpected first char"]
    ELSE IF \E i \in 1 .. Len(buf) : ~IsDigit(buf[i])
         THEN [v |-> -1, err |-> "unexpected trailing char"]
    ELSE [v |-> UintValue(buf), err |-> "nil"]

\* bytes.HasPrefix(b, prefix)
HasPrefix(b, prefix) ==
    Len(b) >= Len(prefix) /\ SubSeq(b, 1, Len(prefix)) = prefix

\* bytes.IndexByte(b, c): zero-based index of the first c, -1 without one
IndexByte(b, c) ==
    IF \E i \in 1 .. Len(b) : b[i] = c
    THEN (CHOOSE i \in 1 .. Len(b) :
            b[i] = c /\ \A j \in 1 .. (i - 1) : b[j] # c) - 1
    ELSE -1

\* the Go slice b[lo:hi]
Slice(b, lo, hi) == SubSeq(b, lo + 1, hi)

RangeOk(startPos, endPos) == [startPos |-> startPos, endPos |-> endPos, err |-> "nil"]
RangeErr(e) == [startPos |-> 0, endPos |-> 0, err |-> e]

\* startPos := contentLength - v; if startPos < 0 { startPos = 0 }
SuffixStartUnclamped(contentLength1, v) == contentLength1 - v
SuffixStart(contentLength1, v) ==
    IF contentLength1 - v < 0 THEN 0 ELSE contentLength1 - v

\* if endPos >= contentLength { endPos = contentLength - 1 }
ClampEndNone(endPos, contentLength1) == endPos
ClampEnd(endPos, contentLength1) ==
    IF endPos >= contentLength1 THEN contentLength1 - 1 ELSE endPos

\* if startPos >= contentLength: the start position cannot exceed contentLength-1
StartExceedsStrict(startPos, contentLength1) == startPos > contentLength1
StartExceeds(startPos, contentLength1) == startPos >= contentLength1

\* ParseByteRange after the "bytes=" prefix: b is what follows the '='
ParseRangeValue(b, contentLength1) ==
    LET n == IndexByte(b, "-") IN
    IF n < 0 THEN RangeErr("missing the end position of byte range")
    ELSE IF n = 0
    THEN LET r == ParseUint(Slice(b, n + 1, Len(b))) IN
         IF r.err # "nil" THEN RangeErr(r.err)
         ELSE RangeOk(SuffixStart(contentLength1, r.v), contentLength1 - 1)
    ELSE LET s == ParseUint(Slice(b, 0, n))
             rest == Slice(b, n + 1, Len(b))
         IN
         IF s.err # "nil" THEN RangeErr(s.err)
         ELSE IF StartExceeds(s.v, contentLength1)
         THEN RangeErr("the start position of byte range cannot exceed the content length")
         ELSE IF Len(rest) = 0 THEN RangeOk(s.v, contentLength1 - 1)
         ELSE LET e == ParseUint(rest) IN
              IF e.err # "nil" THEN RangeErr(e.err)
              ELSE IF ClampEnd(e.v, contentLength1) < s.v
              THEN RangeErr("the start position of byte range cannot exceed the end position")
              ELSE RangeOk(s.v, ClampEnd(e.v, contentLength1))

ParseByteRange(b, contentLength1) ==
    IF ~HasPrefix(b, strBytes) THEN RangeErr("unsupported range units")
    ELSE LET b1 == Slice(b, Len(strBytes), Len(b)) IN
         IF Len(b1) = 0 \/ b1[1] # "=" THEN RangeErr("missing byte range")
         ELSE ParseRangeValue(Slice(b1, 1, Len(b1)), contentLength1)

\* the inputs: every header made of one of the prefixes and a body of up to
\* MaxBodyLen characters, with every content length up to MaxContentLength,
\* and the documented examples
BodyChars == {"-", "0", "1", "3", "x"}
Bodies == UNION {[1 .. k -> BodyChars] : k \in 0 .. MaxBodyLen}
Prefixes == {strBytes \o <<"=">>, strBytes, <<>>}
ExampleInputs ==
    {<<strBytes \o <<"=", "0", "-", "4", "9", "9">>, 1000>>,
     <<strBytes \o <<"=", "5", "0", "0", "-">>, 1000>>,
     <<strBytes \o <<"=", "-", "1", "0", "0">>, 1000>>,
     <<strBytes \o <<"=", "1", "0", "0", "0", "-", "1", "0", "0", "1">>, 1000>>,
     <<strBytes \o <<"=", "5", "0", "0", "-", "1", "0", "0">>, 1000>>,
     <<strBytes \o <<"=", "-", "0">>, 1000>>}
RangeInputs ==
    {<<pre \o body, l>> : pre \in Prefixes, body \in Bodies,
                          l \in 0 .. MaxContentLength}
        \cup ExampleInputs

RangeInit ==
    /\ CacheIdle
    /\ RespIdle
    /\ CompIdle
    /\ FrontIdle
    /\ LockIdle
    /\ OpenIdle
    /\ PoolIdle
    /\ ReadIdle
    /\ \E in \in RangeInputs :
        /\ byteRange = in[1]
        /\ pbrLength = in[2]
    /\ pbrResult = NotCalled

\* startPos, endPos, err := ParseByteRange(byteRange, contentLength)
CallParseByteRange ==
    /\ pbrResult = NotCalled
    /\ pbrResult' = ParseByteRange(byteRange, pbrLength)
    /\ UNCHANGED <<notRange, byteRange, pbrLength>>

RangeNext == CallParseByteRange

RangeSpec == RangeInit /\ [][RangeNext]_vars

(* ---------------- fsHandler.handleRequest: the response ---------------- *)

StatusOK == 200
StatusPartialContent == 206
StatusNotModified == 304
StatusNotFound == 404
StatusRequestedRangeNotSatisfiable == 416
StatusInternalServerError == 500

Encodings == {"br", "zstd", "gzip"}

\* the cache kind of an encoding
KindOf(fileEncoding) ==
    IF fileEncoding = "br" THEN "brotli"
    ELSE IF fileEncoding = "zstd" THEN "zstd"
    ELSE IF fileEncoding = "gzip" THEN "gzip"
    ELSE "default"

\* the switch of handleRequest that picks mustCompress, fileCacheKind and
\* fileEncoding; h is the handler, accepted the encodings for which
\* HasAcceptEncodingBytes is true
NegotiateGzipFirst(h, range, accepted) ==
    IF Len(range) = 0 /\ h.compress /\ "gzip" \in accepted THEN "gzip"
    ELSE IF Len(range) = 0 /\ h.compress /\ h.compressBrotli /\ "br" \in accepted THEN "br"
    ELSE IF Len(range) = 0 /\ h.compress /\ h.compressZstd /\ "zstd" \in accepted THEN "zstd"
    ELSE ""
NegotiateEncoding(h, range, accepted) ==
    IF Len(range) = 0 /\ h.compress
    THEN IF h.compressBrotli /\ "br" \in accepted THEN "br"
         ELSE IF h.compressZstd /\ "zstd" \in accepted THEN "zstd"
         ELSE IF "gzip" \in accepted THEN "gzip"
         ELSE ""
    ELSE ""

\* ctx.IfModifiedSince(lastModified): true without the header, and when the
\* header's time is before lastModified
IfModifiedSince(ims, lastModified) ==
    IF Len(ims) = 0 THEN TRUE ELSE ims[1] < lastModified

\* fsFile.isBig for a filesystem and a content length
IsBigFile(isOS, length) == IF isOS THEN length > maxSmallFileSize ELSE TRUE

\* the readers count after ff.decReadersCount() on the 304 path
NotModifiedCountKept(n) == n
NotModifiedCount(n) == DecValue(n)

\* Close of the reader: the error it returns and the readers count it leaves
CloseFails(big, seeker) == big /\ ~seeker
CloseCount(big, seeker, n) == IF CloseFails(big, seeker) THEN n ELSE DecValue(n)

\* contentLength = endPos - startPos + 1
RangeContentLengthShort(startPos, endPos) == endPos - startPos
RangeContentLength(startPos, endPos) == endPos - startPos + 1

\* ctx.Error(msg, statusCode) and ctx.NotModified(): the response is reset
\* and gets the status (and, for an error, the message as its body)
ResetResponse(statusCode) ==
    [statusCode |-> statusCode, bodyStream |-> FALSE, skipBody |-> FALSE,
     contentLength |-> 0, contentEncoding |-> "", vary |-> FALSE,
     acceptRanges |-> FALSE, contentRange |-> <<>>]

\* the Range headers, If-Modified-Since times and file lengths of the
\* requests followed through handleRequest; the file was last modified at
\* time LastModified
RangeHeaders ==
    {<<>>,
     BytesEq \o <<"0", "-", "1">>,
     BytesEq \o <<"1", "-">>,
     BytesEq \o <<"-", "1">>,
     BytesEq \o <<"9", "-">>,
     <<"x">>}
LastModified == 1
IfModifiedSinceHeaders == {<<>>, <<LastModified - 1>>, <<LastModified>>, <<LastModified + 1>>}
ServedLengths == {3, 10000}

RespInit ==
    /\ skipCache \in BOOLEAN
    /\ fsIsOS \in BOOLEAN
    /\ CacheStart
    /\ RangeIdle
    /\ CompIdle
    /\ FrontIdle
    /\ LockIdle
    /\ OpenIdle
    /\ PoolIdle
    /\ ReadIdle
    /\ handler \in [compress : BOOLEAN, compressBrotli : BOOLEAN,
                    compressZstd : BOOLEAN, acceptByteRange : BOOLEAN]
    /\ request \in [isHead : BOOLEAN, byteRange : RangeHeaders,
                    ifModifiedSince : IfModifiedSinceHeaders,
                    acceptEncoding : SUBSET Encodings]
    /\ \E l \in ServedLengths, n \in 0 .. 1 :
        served = [contentLength |-> l, lastModified |-> LastModified,
                  compressed |-> FALSE,
                  readersCount |-> IF skipCache THEN 0 ELSE n]
    /\ hpc = "negotiate"
    /\ locals = NoLocals
    /\ response = NoResponse

\* lines 1053-1072: mustCompress, fileCacheKind, fileEncoding
Negotiate ==
    /\ hpc = "negotiate"
    /\ LET enc == NegotiateEncoding(handler, request.byteRange, request.acceptEncoding) IN
        locals' = [locals EXCEPT !.mustCompress = enc # "",
                                 !.fileEncoding = enc,
                                 !.fileCacheKind = KindOf(enc)]
    /\ hpc' = "lookup"
    /\ UNCHANGED <<notResp, handler, request, served, response>>

\* GetFileFromCache(fileCacheKind, ...), a hit or (always, with the no-op
\* manager) a miss followed by openFSFile and SetFileToCache: the request
\* has its entry, counted by the in-memory cache manager; an entry of a
\* compressed kind is compressed unless the file was not compressible or the
\* artifact could not be created
LookupOk ==
    /\ hpc = "lookup"
    /\ \E c \in (IF locals.mustCompress THEN BOOLEAN ELSE {FALSE}) :
        served' = [served EXCEPT
                    !.compressed = c,
                    !.readersCount = IF skipCache THEN @ ELSE GetIncValue(@)]
    /\ \E ok \in (IF skipCache THEN {FALSE} ELSE BOOLEAN) :
        locals' = [locals EXCEPT !.consulted = locals.fileCacheKind,
                                 !.hit = ok,
                                 !.hasEntry = TRUE,
                                 !.readersBefore = served.readersCount]
    /\ hpc' = "conditional"
    /\ UNCHANGED <<notResp, handler, request, response>>

\* a miss, and the file cannot be opened: 404
LookupFail ==
    /\ hpc = "lookup"
    /\ locals' = [locals EXCEPT !.consulted = locals.fileCacheKind]
    /\ response' = ResetResponse(StatusNotFound)
    /\ hpc' = "returned"
    /\ UNCHANGED <<notResp, handler, request, served>>

\* if !ctx.IfModifiedSince(ff.lastModified) { ff.decReadersCount();
\* ctx.NotModified(); return }
Conditional ==
    /\ hpc = "conditional"
    /\ IF ~IfModifiedSince(request.ifModifiedSince, served.lastModified)
       THEN /\ served' = [served EXCEPT !.readersCount = NotModifiedCount(@)]
            /\ response' = ResetResponse(StatusNotModified)
            /\ hpc' = "returned"
       ELSE /\ hpc' = "newreader"
            /\ UNCHANGED <<served, response>>
    /\ UNCHANGED <<notResp, handler, request, locals>>

\* r, err := ff.NewReader()
NewReaderOk ==
    /\ hpc = "newreader"
    /\ locals' = [locals EXCEPT !.reader = "open"]
    /\ hpc' = "range"
    /\ UNCHANGED <<notResp, handler, request, served, response>>

\* ff.bigFileReader() fails: NewReader gives the reference back, 500
NewReaderErr ==
    /\ hpc = "newreader"
    /\ IsBigFile(fsIsOS, served.contentLength)
    /\ served' = [served EXCEPT !.readersCount = DecValue(@)]
    /\ response' = ResetResponse(StatusInternalServerError)
    /\ hpc' = "returned"
    /\ UNCHANGED <<notResp, handler, request, locals>>

\* the outcomes of r.UpdateByteRange: TRUE for an error. The small reader
\* never fails, the big one fails without an io.Seeker and when Seek fails
UpdateByteRangeFails(big, seeker) ==
    IF ~big THEN {FALSE}
    ELSE IF ~seeker THEN {TRUE}
    ELSE {FALSE, TRUE}

\* lines 1131-1144: Content-Encoding and Vary: Accept-Encoding of a
\* compressed entry
WithContentEncodingOfKind(resp) ==
    [resp EXCEPT !.contentEncoding = locals.fileEncoding,
                 !.vary = locals.fileEncoding \in Encodings]
WithContentEncoding(resp) ==
    IF served.compressed /\ locals.fileEncoding \in Encodings
    THEN [resp EXCEPT !.contentEncoding = locals.fileEncoding, !.vary = TRUE]
    ELSE resp

\* if h.acceptByteRange { hdr.setNonSpecial(strAcceptRanges, strBytes) }
WithAcceptRangesAlways(resp) == [resp EXCEPT !.acceptRanges = TRUE]
WithAcceptRanges(resp) ==
    IF handler.acceptByteRange THEN [resp EXCEPT !.acceptRanges = TRUE] ELSE resp

\* _ = r.(io.Closer).Close()
ClosedReader ==
    [served EXCEPT !.readersCount =
        CloseCount(IsBigFile(fsIsOS, served.contentLength),
                   fsIsOS \/ virtualFileIsSeeker, @)]

\* no byte range to serve: statusCode := StatusOK, contentLength := ff.contentLength
ByteRangeSkipped ==
    /\ hpc = "range"
    /\ ~(handler.acceptByteRange /\ Len(request.byteRange) > 0)
    /\ locals' = [locals EXCEPT !.statusCode = StatusOK,
                                !.contentLength = served.contentLength]
    /\ response' = WithAcceptRanges(WithContentEncoding(response))
    /\ hpc' = "emit"
    /\ UNCHANGED <<notResp, handler, request, served>>

\* ParseByteRange fails: the reader is closed, 416
ByteRangeUnsatisfiable ==
    /\ hpc = "range"
    /\ handler.acceptByteRange /\ Len(request.byteRange) > 0
    /\ ParseByteRange(request.byteRange, served.contentLength).err # "nil"
    /\ served' = ClosedReader
    /\ locals' = [locals EXCEPT !.reader = "closed"]
    /\ response' = ResetResponse(StatusRequestedRangeNotSatisfiable)
    /\ hpc' = "returned"
    /\ UNCHANGED <<notResp, handler, request>>

\* UpdateByteRange fails: the reader is closed, 500
ByteRangeSeekFails ==
    /\ hpc = "range"
    /\ handler.acceptByteRange /\ Len(request.byteRange) > 0
    /\ ParseByteRange(request.byteRange, served.contentLength).err = "nil"
    /\ TRUE \in UpdateByteRangeFails(IsBigFile(fsIsOS, served.contentLength),
                                     fsIsOS \/ virtualFileIsSeeker)
    /\ served' = ClosedReader
    /\ locals' = [locals EXCEPT !.reader = "closed", !.seekFailed = TRUE]
    /\ response' = ResetResponse(StatusInternalServerError)
    /\ hpc' = "returned"
    /\ UNCHANGED <<notResp, handler, request>>

\* hdr.SetContentRange(startPos, endPos, contentLength);
\* contentLength = endPos - startPos + 1; statusCode = StatusPartialContent
ByteRangeAccepted ==
    /\ hpc = "range"
    /\ handler.acceptByteRange /\ Len(request.byteRange) > 0
    /\ LET pr == ParseByteRange(request.byteRange, served.contentLength) IN
        /\ pr.err = "nil"
        /\ FALSE \in UpdateByteRangeFails(IsBigFile(fsIsOS, served.contentLength),
                                          fsIsOS \/ virtualFileIsSeeker)
        /\ locals' = [locals EXCEPT
                        !.statusCode = StatusPartialContent,
                        !.contentLength = RangeContentLength(pr.startPos, pr.endPos)]
        /\ response' = [WithAcceptRanges(WithContentEncoding(response)) EXCEPT
                        !.contentRange = <<pr.startPos, pr.endPos, served.contentLength>>]
    /\ hpc' = "emit"
    /\ UNCHANGED <<notResp, handler, request, served>>

\* ctx.SetBodyStream(r, contentLength); ctx.SetStatusCode(statusCode)
EmitBody ==
    /\ hpc = "emit"
    /\ ~request.isHead
    /\ locals' = [locals EXCEPT !.emitted = TRUE]
    /\ response' = [response EXCEPT !.bodyStream = TRUE,
                                    !.contentLength = locals.contentLength,
                                    !.statusCode = locals.statusCode]
    /\ hpc' = "returned"
    /\ UNCHANGED <<notResp, handler, request, served>>

\* HEAD: ResetBody, SkipBody, SetContentLength(contentLength), rc.Close();
\* a Close that fails gives 500, otherwise ctx.SetStatusCode(statusCode)
EmitHead ==
    /\ hpc = "emit"
    /\ request.isHead
    /\ served' = ClosedReader
    /\ locals' = [locals EXCEPT !.emitted = TRUE, !.reader = "closed"]
    /\ response' =
        IF CloseFails(IsBigFile(fsIsOS, served.contentLength),
                      fsIsOS \/ virtualFileIsSeeker)
        THEN ResetResponse(StatusInternalServerError)
        ELSE [response EXCEPT !.skipBody = TRUE,
                              !.contentLength = locals.contentLength,
                              !.statusCode = locals.statusCode]
    /\ hpc' = "returned"
    /\ UNCHANGED <<notResp, handler, request>>

RespNext ==
    \/ Negotiate
    \/ LookupOk
    \/ LookupFail
    \/ Conditional
    \/ NewReaderOk
    \/ NewReaderErr
    \/ ByteRangeSkipped
    \/ ByteRangeUnsatisfiable
    \/ ByteRangeSeekFails
    \/ ByteRangeAccepted
    \/ EmitBody
    \/ EmitHead

RespSpec == RespInit /\ [][RespNext]_vars

(* ------------- openFSFile and the compression of a file --------------- *)

\* modification times are counted in half seconds, up to MaxMtime
MaxMtime == 3
Second == 2
\* the modification time of the source files
SourceModTime == Second
\* the requests followed through openFSFile, all goroutines together
MaxCompRequests == 3

\* the source files requested with an accepted encoding
CompPaths == {"/a", "/b"}

\* fsMaxCompressibleFileSize = 8 * 1024 * 1024
fsMaxCompressibleFileSize == 8388608

\* what a source path is: a file that compresses well, a directory, a file
\* whose name ends in the encoding's suffix, a file larger than
\* fsMaxCompressibleFileSize, a file that fails the compressibility probe
SrcKinds == {"compressible", "dir", "suffixed", "big", "incompressible"}

\* fileInfo.Size() of a source
SourceSize(kind) == IF kind = "big" THEN fsMaxCompressibleFileSize + 1 ELSE 100

\* strings.HasSuffix(filePath, suffix) || fileInfo.Size() >
\* fsMaxCompressibleFileSize || !isFileCompressible(f, fsMinCompressRatio)
SkipsCompressionNever(kind) == FALSE
SkipsCompression(kind) ==
    \/ kind = "suffixed"
    \/ SourceSize(kind) > fsMaxCompressibleFileSize
    \/ kind = "incompressible"

\* no file: the value of a path of the disk at which there is none; a file
\* is its modification time and whether its content is "complete" or
\* "partial"
NoFile == <<>>

\* tmpFilePath := compressedFilePath + ".tmp"
TmpPathIsFinal(f) == f
TmpPath(f) == f \o ".tmp"

\* the paths of the compression root
DiskPaths == CompPaths \cup {TmpPath(f) : f \in CompPaths}

\* time.Now() when a file is created: later than every modification time
\* the disk holds at start
CreationTime == MaxMtime + 1

\* os.Stat(compressedFilePath) returns no error
ArtifactNeverFound(file) == FALSE
ArtifactExists(file) == file # NoFile

\* fileInfoOriginal.ModTime().Sub(fileInfo.ModTime()) >= time.Second
IsStaleArtifact(original, compressed) == original - compressed >= Second

\* the mutexes getFileLock allocates: one for each request of each goroutine
MutexIds == Procs \X (1 .. MaxCompRequests)

\* filesLockMap.LoadOrStore(absPath, &sync.Mutex{}): the mutex the caller
\* gets, stored being the map's entry ("none" without one) and fresh the
\* mutex the caller allocated
LoadOrStoreFresh(stored, fresh) == fresh
LoadOrStore(stored, fresh) == IF stored = NoOwner THEN fresh ELSE stored

\* h.filePathToCompressed(filePath) is filePath itself: the artifact is the
\* source's sibling and openFSFile's first Open finds it
SiblingArtifact(f) == IF compCfg.sameRoot THEN artifact[f] ELSE NoFile

\* os.MkdirAll of the artifact's directory is called and fails
MkdirDenied == ~compCfg.sameRoot /\ ~compCfg.canMkdir

\* the error handleRequest compares with errNoCreatePermission
IsNoCreatePermission(err) == err = "errNoCreatePermission"

NewCompReq ==
    [pc |-> "c_idle", n |-> 0, path |-> "", flock |-> NoOwner, err |-> "nil",
     found |-> NoFile, removed |-> FALSE, wrote |-> FALSE,
     osCalls |-> {}, inMemory |-> FALSE, sawCompressions |-> 0,
     statusCode |-> 0, compressed |-> FALSE, servedModTime |-> 0]

CompInit ==
    /\ CacheIdle
    /\ RangeIdle
    /\ RespIdle
    /\ FrontIdle
    /\ LockIdle
    /\ OpenIdle
    /\ PoolIdle
    /\ ReadIdle
    /\ \E os, seeker, same, create, mkdir \in BOOLEAN :
        /\ same => mkdir
        /\ ~mkdir => ~create
        /\ os => seeker
        /\ ~os => (same /\ create)
        /\ \E initial \in [CompPaths -> {NoFile} \cup
                                {<<t, "complete">> : t \in 0 .. MaxMtime}],
              kinds \in [CompPaths -> SrcKinds] :
            /\ compCfg = [isOS |-> os, isSeeker |-> seeker, sameRoot |-> same,
                          canCreate |-> create, canMkdir |-> mkdir,
                          srcKind |-> kinds, initial |-> initial]
            /\ artifact = [d \in DiskPaths |->
                            IF d \in CompPaths THEN initial[d] ELSE NoFile]
    /\ srcModTime = [f \in CompPaths |-> SourceModTime]
    /\ filesLockMap = [f \in CompPaths |-> NoOwner]
    /\ mutexOwner = [m \in MutexIds |-> NoOwner]
    /\ compressions = [f \in CompPaths |-> 0]
    /\ compReq = [p \in Procs |-> NewCompReq]

\* the requests started so far
RECURSIVE SumOfRequests(_)
SumOfRequests(ps) ==
    IF ps = {} THEN 0
    ELSE LET p == CHOOSE q \in ps : TRUE IN
         compReq[p].n + SumOfRequests(ps \ {p})
RequestsStarted == SumOfRequests(Procs)

\* a request for a file misses the cache with mustCompress set
CompStart(p) ==
    /\ compReq[p].pc = "c_idle"
    /\ RequestsStarted < MaxCompRequests
    /\ \E f \in CompPaths :
        compReq' = [compReq EXCEPT ![p].path = f,
                                   ![p].n = @ + 1,
                                   ![p].sawCompressions = compressions[f],
                                   ![p].pc = "c_open"]
    /\ UNCHANGED <<notComp, compCfg, srcModTime, artifact, filesLockMap,
                   mutexOwner, compressions>>

\* openFSFile: h.filesystem.Open(filePath + suffix); without such a file
\* compressAndOpenFSFile; with one, the comparison of the modification times
OpenSibling(p) ==
    /\ compReq[p].pc = "c_open"
    /\ LET f == compReq[p].path
           a == SiblingArtifact(f)
       IN
        IF ~ArtifactExists(a)
        THEN compReq' = [compReq EXCEPT ![p].pc = "c_probe"]
        ELSE IF IsStaleArtifact(srcModTime[f], a[1])
        THEN compReq' = [compReq EXCEPT ![p].found = a, ![p].pc = "c_remove"]
        ELSE compReq' = [compReq EXCEPT ![p].found = a,
                                        ![p].compressed = TRUE,
                                        ![p].servedModTime = a[1],
                                        ![p].pc = "c_ret"]
    /\ UNCHANGED <<notComp, compCfg, srcModTime, artifact, filesLockMap,
                   mutexOwner, compressions>>

\* the compressed file became stale: f.Close(); os.Remove(filePath), which
\* is a call of the operating system whatever h.filesystem is (the files of
\* another fs.FS stay as they are)
RemoveStale(p) ==
    /\ compReq[p].pc = "c_remove"
    /\ artifact' = IF compCfg.isOS
                   THEN [artifact EXCEPT ![compReq[p].path] = NoFile]
                   ELSE artifact
    /\ compReq' = [compReq EXCEPT ![p].removed = TRUE,
                                   ![p].osCalls = @ \cup {"os.Remove"},
                                   ![p].pc = "c_probe"]
    /\ UNCHANGED <<notComp, compCfg, srcModTime, filesLockMap, mutexOwner,
                   compressions>>

\* compressAndOpenFSFile: errDirIndexRequired for a directory; the source
\* itself, uncompressed, for a file that is not to be compressed; on another
\* fs.FS than the OS newCompressedFSFileCache, which compresses into a
\* buffer of the entry and needs the file to be an io.Seeker; on the OS
\* os.MkdirAll under a separate compression root, whose error is returned as
\* it is, then flock := getFileLock(absPath)
CompressAndOpen(p) ==
    /\ compReq[p].pc = "c_probe"
    /\ LET f == compReq[p].path
           kind == compCfg.srcKind[f]
       IN
       IF kind = "dir"
       THEN /\ compReq' = [compReq EXCEPT ![p].err = "errDirIndexRequired",
                                          ![p].pc = "c_ret"]
            /\ UNCHANGED filesLockMap
       ELSE IF SkipsCompression(kind)
       THEN /\ compReq' = [compReq EXCEPT ![p].compressed = FALSE,
                                          ![p].servedModTime = srcModTime[f],
                                          ![p].pc = "c_ret"]
            /\ UNCHANGED filesLockMap
       ELSE IF ~compCfg.isOS
       THEN /\ compReq' =
                IF compCfg.isSeeker
                THEN [compReq EXCEPT ![p].compressed = TRUE,
                                     ![p].inMemory = TRUE,
                                     ![p].servedModTime = srcModTime[f],
                                     ![p].pc = "c_ret"]
                ELSE [compReq EXCEPT ![p].err = "not implemented io.Seeker",
                                     ![p].pc = "c_ret"]
            /\ UNCHANGED filesLockMap
       ELSE IF MkdirDenied
       THEN /\ compReq' = [compReq EXCEPT
                                ![p].err = "mkdir: permission denied",
                                ![p].osCalls = @ \cup {"os.MkdirAll"},
                                ![p].pc = "c_ret"]
            /\ UNCHANGED filesLockMap
       ELSE LET m == LoadOrStore(filesLockMap[f], <<p, compReq[p].n>>) IN
            /\ filesLockMap' = [filesLockMap EXCEPT ![f] = m]
            /\ compReq' = [compReq EXCEPT
                                ![p].flock = m,
                                ![p].osCalls = IF compCfg.sameRoot THEN @
                                               ELSE @ \cup {"os.MkdirAll"},
                                ![p].pc = "c_lock"]
    /\ UNCHANGED <<notComp, compCfg, srcModTime, artifact, mutexOwner,
                   compressions>>

\* flock.Lock()
FileLock(p) ==
    /\ compReq[p].pc = "c_lock"
    /\ mutexOwner[compReq[p].flock] = NoOwner
    /\ mutexOwner' = [mutexOwner EXCEPT ![compReq[p].flock] = p]
    /\ compReq' = [compReq EXCEPT ![p].pc = "c_stat"]
    /\ UNCHANGED <<notComp, compCfg, srcModTime, artifact, filesLockMap,
                   compressions>>

\* compressFileNolock: os.Stat(compressedFilePath) finds the file another
\* request wrote, or os.Create of the temporary file fails for want of the
\* permission, or the temporary file is created
StatOrCreate(p) ==
    /\ compReq[p].pc = "c_stat"
    /\ LET f == compReq[p].path
           r == compReq[p]
       IN
        IF ArtifactExists(artifact[f])
        THEN compReq' = [compReq EXCEPT
                 ![p].found = IF r.found = NoFile THEN artifact[f] ELSE r.found,
                 ![p].pc = "c_openart"]
        ELSE IF ~compCfg.canCreate
        THEN compReq' = [compReq EXCEPT ![p].err = "errNoCreatePermission",
                                        ![p].pc = "c_unlock"]
        ELSE compReq' = [compReq EXCEPT ![p].osCalls = @ \cup {"os.Create"},
                                        ![p].pc = "c_write"]
    /\ artifact' =
        IF ~ArtifactExists(artifact[compReq[p].path]) /\ compCfg.canCreate
        THEN [artifact EXCEPT ![TmpPath(compReq[p].path)] =
                                    <<CreationTime, "partial">>]
        ELSE artifact
    /\ UNCHANGED <<notComp, compCfg, srcModTime, filesLockMap, mutexOwner,
                   compressions>>

\* compressFileNolock: the source is compressed into the temporary file,
\* which is closed, and os.Chtimes gives it the source's modification time
WriteArtifact(p) ==
    /\ compReq[p].pc = "c_write"
    /\ LET f == compReq[p].path IN
        artifact' = [artifact EXCEPT ![TmpPath(f)] = <<srcModTime[f], "complete">>]
    /\ compReq' = [compReq EXCEPT ![p].osCalls = @ \cup {"os.Chtimes"},
                                   ![p].pc = "c_rename"]
    /\ UNCHANGED <<notComp, compCfg, srcModTime, filesLockMap, mutexOwner,
                   compressions>>

\* os.Rename(tmpFilePath, compressedFilePath)
RenameArtifact(p) ==
    /\ compReq[p].pc = "c_rename"
    /\ LET f == compReq[p].path IN
        /\ artifact' = [artifact EXCEPT ![f] = artifact[TmpPath(f)],
                                        ![TmpPath(f)] = NoFile]
        /\ compressions' = [compressions EXCEPT ![f] = @ + 1]
    /\ compReq' = [compReq EXCEPT ![p].wrote = TRUE,
                                   ![p].osCalls = @ \cup {"os.Rename"},
                                   ![p].pc = "c_openart"]
    /\ UNCHANGED <<notComp, compCfg, srcModTime, filesLockMap, mutexOwner>>

\* newCompressedFSFile: h.filesystem.Open(filePath) and Stat of the artifact;
\* the Open fails when the file was removed meanwhile
OpenArtifact(p) ==
    /\ compReq[p].pc = "c_openart"
    /\ LET a == artifact[compReq[p].path] IN
        IF ArtifactExists(a)
        THEN compReq' = [compReq EXCEPT ![p].compressed = TRUE,
                                        ![p].servedModTime = a[1],
                                        ![p].pc = "c_unlock"]
        ELSE compReq' = [compReq EXCEPT ![p].err = "cannot open compressed file",
                                        ![p].pc = "c_unlock"]
    /\ UNCHANGED <<notComp, compCfg, srcModTime, artifact, filesLockMap,
                   mutexOwner, compressions>>

\* flock.Unlock()
FileUnlock(p) ==
    /\ compReq[p].pc = "c_unlock"
    /\ mutexOwner' = [mutexOwner EXCEPT ![compReq[p].flock] = NoOwner]
    /\ compReq' = [compReq EXCEPT ![p].pc = "c_ret"]
    /\ UNCHANGED <<notComp, compCfg, srcModTime, artifact, filesLockMap,
                   compressions>>

\* handleRequest after openFSFile: errNoCreatePermission opens the file
\* again with mustCompress = false, errDirIndexRequired leaves the answer
\* to the directory index, any other error answers "Cannot open requested
\* path" with StatusNotFound
OpenReturns(p) ==
    /\ compReq[p].pc = "c_ret"
    /\ LET r == compReq[p] IN
        IF IsNoCreatePermission(r.err)
        THEN compReq' = [compReq EXCEPT ![p].compressed = FALSE,
                                        ![p].servedModTime = srcModTime[r.path],
                                        ![p].statusCode = StatusOK,
                                        ![p].pc = "c_done"]
        ELSE IF r.err = "errDirIndexRequired"
        THEN compReq' = [compReq EXCEPT ![p].pc = "c_done"]
        ELSE IF r.err # "nil"
        THEN compReq' = [compReq EXCEPT ![p].statusCode = StatusNotFound,
                                        ![p].pc = "c_done"]
        ELSE compReq' = [compReq EXCEPT ![p].statusCode = StatusOK,
                                        ![p].pc = "c_done"]
    /\ UNCHANGED <<notComp, compCfg, srcModTime, artifact, filesLockMap,
                   mutexOwner, compressions>>

\* the request is over, its goroutine serves the next one
CompDone(p) ==
    /\ compReq[p].pc = "c_done"
    /\ compReq' = [compReq EXCEPT ![p] = [NewCompReq EXCEPT !.n = compReq[p].n]]
    /\ UNCHANGED <<notComp, compCfg, srcModTime, artifact, filesLockMap,
                   mutexOwner, compressions>>

CompNext ==
    \E p \in Procs :
        \/ CompStart(p)
        \/ CompDone(p)
        \/ OpenSibling(p)
        \/ RemoveStale(p)
        \/ CompressAndOpen(p)
        \/ FileLock(p)
        \/ StatOrCreate(p)
        \/ WriteArtifact(p)
        \/ RenameArtifact(p)
        \/ OpenArtifact(p)
        \/ FileUnlock(p)
        \/ OpenReturns(p)

CompSpec == CompInit /\ [][CompNext]_vars

(* ------- fsHandler.handleRequest: the path, the checks, the open -------- *)

\* a request path has at most MaxPathLen bytes, a stripper strips at most
\* MaxStrip segments or bytes, a handler has at most MaxIndexNames index names
MaxPathLen == 5
MaxStrip == 3
MaxIndexNames == 2

StatusFound == 302
StatusBadRequest == 400
StatusForbidden == 403

\* the zero byte
NulByte == "NUL"
strSlashDotDotSlash == <<"/", ".", ".", "/">>

\* the bytes of the request paths
PathChars == {"/", "a", ".", NulByte}

\* what a panic of the rewriter leaves instead of a path
Panic == <<"BUG: path must start with slash">>

\* path = path[n+1:] of stripLeadingSlashes
AfterSlashSkipping(path, n) == Slice(path, n + 2, Len(path))
AfterSlash(path, n) == Slice(path, n + 1, Len(path))

RECURSIVE stripLeadingSlashes(_, _)
stripLeadingSlashes(path, stripSlashes) ==
    IF stripSlashes > 0 /\ Len(path) > 0
    THEN IF path[1] # "/"
         THEN Panic
         ELSE LET n == IndexByte(Slice(path, 1, Len(path)), "/") IN
              IF n < 0
              THEN <<>>
              ELSE stripLeadingSlashes(AfterSlash(path, n), stripSlashes - 1)
    ELSE path

\* the rewriter NewPathSlashesStripper(slashesCount) returns
PathSlashesStripper(path, slashesCount) == stripLeadingSlashes(path, slashesCount)

\* the rewriter NewPathPrefixStripper(prefixSize) returns
PathPrefixStripper(path, prefixSize) ==
    IF Len(path) >= prefixSize THEN Slice(path, prefixSize, Len(path)) ELSE path

\* bytes.Index(b, sep) >= 0
Contains(b, sep) ==
    \E i \in 0 .. (Len(b) - Len(sep)) : Slice(b, i, i + Len(sep)) = sep

\* hasTrailingSlash := len(path) > 0 && path[len(path)-1] == '/'
HasTrailingSlash(path) == Len(path) > 0 /\ path[Len(path)] = "/"

\* the values of ctx.Path(): the paths over PathChars that start with a
\* slash, and the path of the rewriters' documentation
RECURSIVE SeqsUpTo(_, _)
SeqsUpTo(S, n) ==
    IF n = 0 THEN {<<>>}
    ELSE LET shorter == SeqsUpTo(S, n - 1) IN
         shorter \cup {Append(s, c) : s \in shorter, c \in S}
strFooBar == <<"/", "f", "o", "o", "/", "b", "a", "r">>
CtxPaths == {<<"/">> \o s : s \in SeqsUpTo(PathChars, MaxPathLen - 1)} \cup {strFooBar}

\* the results of the rewrite functions a user supplies, other than the two
\* strippers
CustomPaths ==
    {<<>>,
     <<"/", "a">>,
     <<"/", "a", "/">>,
     strSlashDotDotSlash,
     <<"/", "a">> \o strSlashDotDotSlash \o <<"a">>,
     <<"/", NulByte>> \o strSlashDotDotSlash,
     strSlashDotDotSlash \o <<NulByte>>}

\* FS.PathRewrite: none, one of the strippers, or a function of the user
PathRewrites ==
    {<<"none">>}
        \cup {<<"slashes", n>> : n \in 0 .. MaxStrip}
        \cup {<<"prefix", k>> : k \in 0 .. MaxStrip}
        \cup {<<"custom", r>> : r \in CustomPaths}

\* h.pathRewrite(ctx), or ctx.Path() without a rewriter
RewrittenPath(rewrite, path) ==
    IF rewrite[1] = "slashes" THEN PathSlashesStripper(path, rewrite[2])
    ELSE IF rewrite[1] = "prefix" THEN PathPrefixStripper(path, rewrite[2])
    ELSE IF rewrite[1] = "custom" THEN rewrite[2]
    ELSE path

\* what a path of the served tree is on the disk
FileKinds == {"file", "dir", "missing", "unreadable"}

\* the error of h.openFSFile(filePath, mustCompress, fileEncoding) for what
\* filePath is, canCreate telling whether the compressed file can be created
OpenError(kind, mustCompress, canCreate) ==
    IF kind = "dir" THEN "errDirIndexRequired"
    ELSE IF kind = "missing" THEN "ErrNotExist"
    ELSE IF kind = "unreadable" THEN "ErrPermission"
    ELSE IF mustCompress /\ ~canCreate THEN "errNoCreatePermission"
    ELSE "nil"

\* ff, err = h.openFSFile(...) and, for errNoCreatePermission, once more
\* with mustCompress = false
OpenWithFallback(kind, mustCompress, canCreate) ==
    LET err == OpenError(kind, mustCompress, canCreate) IN
    IF mustCompress /\ err = "errNoCreatePermission"
    THEN [err |-> OpenError(kind, FALSE, canCreate), mustCompress |-> FALSE]
    ELSE [err |-> err, mustCompress |-> mustCompress]

\* the loop of openIndexFile from the i-th index name on: where it ended (0
\* when no name was left) and with which error
RECURSIVE OpenIndexFrom(_, _, _, _)
OpenIndexFrom(kinds, i, mustCompress, canCreate) ==
    IF i > Len(kinds)
    THEN [index |-> 0, err |-> "nil"]
    ELSE LET err == OpenError(kinds[i], mustCompress, canCreate) IN
         IF err = "nil"
         THEN [index |-> i, err |-> "nil"]
         ELSE IF mustCompress /\ err = "errNoCreatePermission"
         THEN [index |-> i, err |-> OpenError(kinds[i], FALSE, canCreate)]
         ELSE IF err # "ErrNotExist"
         THEN [index |-> i, err |-> "cannot open file"]
         ELSE OpenIndexFrom(kinds, i + 1, mustCompress, canCreate)

\* openIndexFile: the index file opened, the generated listing, or an error
OpenIndexFile(kinds, generateIndexPages, mustCompress, canCreate) ==
    LET r == OpenIndexFrom(kinds, 1, mustCompress, canCreate) IN
    IF r.index > 0
    THEN [opened |-> IF r.err = "nil" THEN "index" ELSE "none",
          index |-> r.index, err |-> r.err]
    ELSE IF ~generateIndexPages
    THEN [opened |-> "none", index |-> 0,
          err |-> "cannot access directory without index page"]
    ELSE [opened |-> "listing", index |-> 0, err |-> "nil"]

\* the status of the two checks of the path (0: the path passes)
RejectedStatusTraversalFirst(path, rewritten) ==
    IF rewritten /\ Contains(path, strSlashDotDotSlash) THEN StatusInternalServerError
    ELSE IF Contains(path, <<NulByte>>) THEN StatusBadRequest
    ELSE 0
RejectedStatus(path, rewritten) ==
    IF IndexByte(path, NulByte) >= 0 THEN StatusBadRequest
    ELSE IF rewritten /\ Contains(path, strSlashDotDotSlash) THEN StatusInternalServerError
    ELSE 0

\* the status the handler gives an open that failed otherwise than with
\* errDirIndexRequired
OpenFailedStatusForbidden == StatusForbidden
OpenFailedStatus == StatusNotFound

\* the directories' index kinds: what each of h.indexNames is in the
\* directory, in the order of the list
IndexKindLists == SeqsUpTo(FileKinds, MaxIndexNames)

NewFront ==
    [pc |-> "rewrite", path |-> <<>>, hasTrailingSlash |-> FALSE,
     mustCompress |-> FALSE, hit |-> FALSE, lookups |-> 0, opens |-> 0,
     kind |-> "", canCreate |-> FALSE, indexKinds |-> <<>>,
     generateIndexPages |-> FALSE, pathNotFound |-> FALSE,
     err |-> "nil", opened |-> "none", index |-> 0, statusCode |-> 0,
     location |-> <<>>, message |-> "", handlerSaw |-> 0, inserted |-> FALSE]

FrontInit ==
    /\ CacheIdle
    /\ RangeIdle
    /\ RespIdle
    /\ CompIdle
    /\ LockIdle
    /\ OpenIdle
    /\ PoolIdle
    /\ ReadIdle
    /\ pathRewrite \in PathRewrites
    /\ ctxPath \in CtxPaths
    /\ front = NewFront

\* path = h.pathRewrite(ctx), or ctx.Path(); hasTrailingSlash
FrontRewrite ==
    /\ front.pc = "rewrite"
    /\ LET path == RewrittenPath(pathRewrite, ctxPath) IN
        front' = [front EXCEPT
                    !.path = path,
                    !.hasTrailingSlash = HasTrailingSlash(path),
                    !.pc = IF path = Panic THEN "panicked" ELSE "checks"]
    /\ UNCHANGED <<notFront, pathRewrite, ctxPath>>

\* the zero byte and, with a rewriter, the "/../" check
FrontChecks ==
    /\ front.pc = "checks"
    /\ LET st == RejectedStatus(front.path, pathRewrite[1] # "none") IN
        front' = IF st = 0
                 THEN [front EXCEPT !.pc = "lookup"]
                 ELSE [front EXCEPT
                        !.statusCode = st,
                        !.message = IF st = StatusBadRequest
                                    THEN "Are you a hacker?"
                                    ELSE "Internal Server Error",
                        !.pc = "returned"]
    /\ UNCHANGED <<notFront, pathRewrite, ctxPath>>

\* the negotiation (mustCompress) and h.cacheManager.GetFileFromCache
FrontLookup ==
    /\ front.pc = "lookup"
    /\ \E mc, ok \in BOOLEAN :
        front' = [front EXCEPT !.mustCompress = mc,
                               !.hit = ok,
                               !.lookups = @ + 1,
                               !.pc = IF ok THEN "serve" ELSE "open"]
    /\ UNCHANGED <<notFront, pathRewrite, ctxPath>>

\* the miss: openFSFile for what the path is on the disk, with the handler's
\* PathNotFound and GenerateIndexPages as the request finds them; the
\* redirect of a directory requested without the trailing slash; the answer
\* to any other error
FrontOpen ==
    /\ front.pc = "open"
    /\ \E kind \in FileKinds, cc, gen, pnf \in BOOLEAN :
        LET o == OpenWithFallback(kind, front.mustCompress, cc)
            f == [front EXCEPT !.kind = kind, !.canCreate = cc,
                               !.generateIndexPages = gen,
                               !.pathNotFound = pnf,
                               !.mustCompress = o.mustCompress,
                               !.opens = @ + 1,
                               !.err = o.err]
        IN
        front' =
            IF o.err = "errDirIndexRequired"
            THEN IF ~front.hasTrailingSlash
                 THEN [f EXCEPT !.statusCode = StatusFound,
                                !.location = front.path \o <<"/">>,
                                !.pc = "returned"]
                 ELSE [f EXCEPT !.pc = "index"]
            ELSE IF o.err # "nil"
            THEN IF ~pnf
                 THEN [f EXCEPT !.statusCode = OpenFailedStatus,
                                !.message = "Cannot open requested path",
                                !.pc = "returned"]
                 ELSE [f EXCEPT !.statusCode = OpenFailedStatus,
                                !.pc = "pathNotFound"]
            ELSE [f EXCEPT !.opened = "file", !.pc = "setcache"]
    /\ UNCHANGED <<notFront, pathRewrite, ctxPath>>

\* h.pathNotFound(ctx): the handler of the user sees the status and may
\* replace it
FrontPathNotFound ==
    /\ front.pc = "pathNotFound"
    /\ \E st \in {StatusNotFound, StatusOK} :
        front' = [front EXCEPT !.handlerSaw = front.statusCode,
                               !.statusCode = st,
                               !.pc = "returned"]
    /\ UNCHANGED <<notFront, pathRewrite, ctxPath>>

\* ff, err = h.openIndexFile(...) for what the index names are in the
\* directory; with an error "Directory index is forbidden"
FrontIndexUnchecked ==
    /\ front.pc = "index"
    /\ \E kinds \in IndexKindLists :
        LET r == OpenIndexFile(kinds, front.generateIndexPages,
                               front.mustCompress, front.canCreate)
        IN
        front' = [front EXCEPT !.indexKinds = kinds, !.err = r.err,
                               !.opened = r.opened, !.index = r.index,
                               !.statusCode = IF r.err # "nil"
                                              THEN StatusForbidden ELSE @,
                               !.pc = "setcache"]
    /\ UNCHANGED <<notFront, pathRewrite, ctxPath>>
FrontIndex ==
    /\ front.pc = "index"
    /\ \E kinds \in IndexKindLists :
        LET r == OpenIndexFile(kinds, front.generateIndexPages,
                               front.mustCompress, front.canCreate)
            f == [front EXCEPT !.indexKinds = kinds, !.err = r.err,
                               !.opened = r.opened, !.index = r.index]
        IN
        front' = IF r.err # "nil"
                 THEN [f EXCEPT !.statusCode = StatusForbidden,
                                !.message = "Directory index is forbidden",
                                !.pc = "returned"]
                 ELSE [f EXCEPT !.pc = "setcache"]
    /\ UNCHANGED <<notFront, pathRewrite, ctxPath>>

\* ff = h.cacheManager.SetFileToCache(fileCacheKind, originalPathStr, ff)
FrontSetCache ==
    /\ front.pc = "setcache"
    /\ front' = [front EXCEPT !.inserted = TRUE, !.pc = "serve"]
    /\ UNCHANGED <<notFront, pathRewrite, ctxPath>>

FrontNext ==
    \/ FrontRewrite
    \/ FrontChecks
    \/ FrontLookup
    \/ FrontOpen
    \/ FrontPathNotFound
    \/ FrontIndex
    \/ FrontSetCache

FrontSpec == FrontInit /\ [][FrontNext]_vars

(* ------------------ the locks of the subsystem ------------------------ *)
(* Every goroutine seen through the locks it takes: cacheManager.cacheLock, *)
(* the per-path mutexes of filesLockMap and the bigFilesLock of each        *)
(* fsFile. What the critical sections compute is left out except for the    *)
(* cache map and the files to release, which decide who calls Release.      *)

\* requests served in one run
MaxLockRequests == 3

LockPaths == {"/a", "/b"}
Goroutines == Procs \cup {Sweeper}
\* the fsFile objects: each request constructs one at most
LockEntries == 1 .. MaxLockRequests

NewLockGo == [pc |-> "idle", path |-> "", ff |-> Nil, ff1 |-> Nil]

LockInit ==
    /\ CacheIdle
    /\ RangeIdle
    /\ RespIdle
    /\ CompIdle
    /\ FrontIdle
    /\ ReadIdle
    /\ PoolIdle
    /\ OpenIdle
    /\ lockOwner = [cacheLock |-> NoOwner,
                    flock |-> [f \in LockPaths |-> NoOwner],
                    bigFilesLock |-> [e \in LockEntries |-> NoOwner]]
    /\ lockGo = [g \in Goroutines |-> NewLockGo]
    /\ \E skip \in BOOLEAN :
        lockHeap = [skipCache |-> skip,
                    cache |-> [f \in LockPaths |-> Nil],
                    big |-> [e \in LockEntries |-> FALSE],
                    constructed |-> 0,
                    started |-> 0,
                    filesToRelease |-> {}]

\* the locks a goroutine holds
HeldBigFilesLocks(g) == {e \in LockEntries : lockOwner.bigFilesLock[e] = g}
HeldFileLocks(g) == {f \in LockPaths : lockOwner.flock[f] = g}
HeldCount(g) ==
    (IF lockOwner.cacheLock = g THEN 1 ELSE 0)
        + Cardinality(HeldFileLocks(g)) + Cardinality(HeldBigFilesLocks(g))

\* handleRequest is entered
LkStart(g) ==
    /\ lockGo[g].pc = "idle"
    /\ lockHeap.started < MaxLockRequests
    /\ \E f \in LockPaths :
        lockGo' = [lockGo EXCEPT ![g] = [NewLockGo EXCEPT !.path = f, !.pc = "get"]]
    /\ lockHeap' = [lockHeap EXCEPT !.started = @ + 1]
    /\ UNCHANGED <<notLock, lockOwner>>

\* noopCacheManager.GetFileFromCache: return nil, false, without a lock
LkGetNoop(g) ==
    /\ lockGo[g].pc = "get"
    /\ lockHeap.skipCache
    /\ lockGo' = [lockGo EXCEPT ![g].pc = "open"]
    /\ UNCHANGED <<notLock, lockOwner, lockHeap>>

\* inMemoryCacheManager.GetFileFromCache: cm.cacheLock.Lock()
LkGetLock(g) ==
    /\ lockGo[g].pc = "get"
    /\ ~lockHeap.skipCache
    /\ LockGuard(lockOwner.cacheLock)
    /\ lockOwner' = [lockOwner EXCEPT !.cacheLock = g]
    /\ lockGo' = [lockGo EXCEPT ![g].pc = "get_unlock"]
    /\ UNCHANGED <<notLock, lockHeap>>

\* ff, ok := fileCache[path]; cm.cacheLock.Unlock(); return ff, ok
LkGetUnlock(g) ==
    /\ lockGo[g].pc = "get_unlock"
    /\ lockOwner' = [lockOwner EXCEPT !.cacheLock = NoOwner]
    /\ LET hit == lockHeap.cache[lockGo[g].path] IN
        lockGo' = IF hit # Nil
                  THEN [lockGo EXCEPT ![g].ff = hit, ![g].pc = "serve"]
                  ELSE [lockGo EXCEPT ![g].pc = "open"]
    /\ UNCHANGED <<notLock, lockHeap>>

\* a new fsFile, big or small
LkNewFSFile(g, isBig, nextPc) ==
    /\ lockHeap.constructed < MaxLockRequests
    /\ LET e == lockHeap.constructed + 1 IN
        /\ lockHeap' = [lockHeap EXCEPT !.constructed = e, !.big[e] = isBig]
        /\ lockGo' = [lockGo EXCEPT ![g].ff = e, ![g].pc = nextPc]

\* openFSFile (openIndexFile included) up to the return of a file that was
\* opened or built without compressing on the disk
LkOpenOk(g) ==
    /\ lockGo[g].pc = "open"
    /\ \E isBig \in BOOLEAN : LkNewFSFile(g, isBig, "set")
    /\ UNCHANGED <<notLock, lockOwner>>

\* openFSFile fails: 302, 403 or 404, and handleRequest returns
LkOpenFail(g) ==
    /\ lockGo[g].pc = "open"
    /\ lockGo' = [lockGo EXCEPT ![g] = NewLockGo]
    /\ UNCHANGED <<notLock, lockOwner, lockHeap>>

\* compressAndOpenFSFile on the OS: flock := getFileLock(absPath)
LkCompress(g) ==
    /\ lockGo[g].pc = "open"
    /\ lockGo' = [lockGo EXCEPT ![g].pc = "flock"]
    /\ UNCHANGED <<notLock, lockOwner, lockHeap>>

\* flock.Lock()
LkFileLock(g) ==
    /\ lockGo[g].pc = "flock"
    /\ LockGuard(lockOwner.flock[lockGo[g].path])
    /\ lockOwner' = [lockOwner EXCEPT !.flock[lockGo[g].path] = g]
    /\ lockGo' = [lockGo EXCEPT ![g].pc = "flock_unlock"]
    /\ UNCHANGED <<notLock, lockHeap>>

\* ff, err := h.compressFileNolock(...); flock.Unlock(); return ff, err
LkFileUnlock(g) ==
    /\ lockGo[g].pc = "flock_unlock"
    /\ lockOwner' = [lockOwner EXCEPT !.flock[lockGo[g].path] = NoOwner]
    /\ \/ \E isBig \in BOOLEAN : LkNewFSFile(g, isBig, "set")
       \/ /\ lockGo' = [lockGo EXCEPT ![g] = NewLockGo]
          /\ UNCHANGED lockHeap
    /\ UNCHANGED notLock

\* noopCacheManager.SetFileToCache: return ff, without a lock
LkSetNoop(g) ==
    /\ lockGo[g].pc = "set"
    /\ lockHeap.skipCache
    /\ lockGo' = [lockGo EXCEPT ![g].pc = "serve"]
    /\ UNCHANGED <<notLock, lockOwner, lockHeap>>

\* inMemoryCacheManager.SetFileToCache: cm.cacheLock.Lock()
LkSetLock(g) ==
    /\ lockGo[g].pc = "set"
    /\ ~lockHeap.skipCache
    /\ LockGuard(lockOwner.cacheLock)
    /\ lockOwner' = [lockOwner EXCEPT !.cacheLock = g]
    /\ lockGo' = [lockGo EXCEPT ![g].pc = "set_unlock"]
    /\ UNCHANGED <<notLock, lockHeap>>

\* ff1, ok := fileCache[path]; if !ok { fileCache[path] = ff };
\* cm.cacheLock.Unlock()
LkSetUnlock(g) ==
    /\ lockGo[g].pc = "set_unlock"
    /\ lockOwner' = [lockOwner EXCEPT !.cacheLock = NoOwner]
    /\ LET f == lockGo[g].path
           stored == lockHeap.cache[f]
       IN
        IF stored = Nil
        THEN /\ lockHeap' = [lockHeap EXCEPT !.cache[f] = lockGo[g].ff]
             /\ lockGo' = [lockGo EXCEPT ![g].pc = "serve"]
        ELSE /\ lockGo' = [lockGo EXCEPT ![g].ff1 = stored, ![g].pc = "release"]
             /\ UNCHANGED lockHeap
    /\ UNCHANGED notLock

\* if ok { ff.Release(); ff = ff1 }, ff not big: Release closes ff.f only
LkReleaseSmall(g) ==
    /\ lockGo[g].pc = "release"
    /\ ~lockHeap.big[lockGo[g].ff]
    /\ lockGo' = [lockGo EXCEPT ![g].ff = lockGo[g].ff1, ![g].ff1 = Nil,
                                ![g].pc = "serve"]
    /\ UNCHANGED <<notLock, lockOwner, lockHeap>>

\* ff.Release() of a big file: ff.bigFilesLock.Lock()
LkReleaseLock(g) ==
    /\ lockGo[g].pc = "release"
    /\ lockHeap.big[lockGo[g].ff]
    /\ LockGuard(lockOwner.bigFilesLock[lockGo[g].ff])
    /\ lockOwner' = [lockOwner EXCEPT !.bigFilesLock[lockGo[g].ff] = g]
    /\ lockGo' = [lockGo EXCEPT ![g].pc = "release_unlock"]
    /\ UNCHANGED <<notLock, lockHeap>>

\* the readers are closed; ff.bigFilesLock.Unlock(); ff = ff1
LkReleaseUnlock(g) ==
    /\ lockGo[g].pc = "release_unlock"
    /\ lockOwner' = [lockOwner EXCEPT !.bigFilesLock[lockGo[g].ff] = NoOwner]
    /\ lockGo' = [lockGo EXCEPT ![g].ff = lockGo[g].ff1, ![g].ff1 = Nil,
                                ![g].pc = "serve"]
    /\ UNCHANGED <<notLock, lockHeap>>

\* if !ctx.IfModifiedSince(ff.lastModified) { ff.decReadersCount() }
LkNotModified(g) ==
    /\ lockGo[g].pc = "serve"
    /\ lockGo' = [lockGo EXCEPT ![g].pc = "dec"]
    /\ UNCHANGED <<notLock, lockOwner, lockHeap>>

\* ff.NewReader() of a small file: no lock; the reader is closed later
LkSmallFileReader(g) ==
    /\ lockGo[g].pc = "serve"
    /\ ~lockHeap.big[lockGo[g].ff]
    /\ lockGo' = [lockGo EXCEPT ![g].pc = "close"]
    /\ UNCHANGED <<notLock, lockOwner, lockHeap>>

\* ff.bigFileReader(): ff.bigFilesLock.Lock()
LkBigFileReaderLock(g) ==
    /\ lockGo[g].pc = "serve"
    /\ lockHeap.big[lockGo[g].ff]
    /\ LockGuard(lockOwner.bigFilesLock[lockGo[g].ff])
    /\ lockOwner' = [lockOwner EXCEPT !.bigFilesLock[lockGo[g].ff] = g]
    /\ lockGo' = [lockGo EXCEPT ![g].pc = "reader_unlock"]
    /\ UNCHANGED <<notLock, lockHeap>>

\* ff.bigFilesLock.Unlock(); a pooled reader or a newly opened one is
\* returned, or the Open fails and NewReader calls ff.decReadersCount()
LkBigFileReaderUnlock(g) ==
    /\ lockGo[g].pc = "reader_unlock"
    /\ lockOwner' = [lockOwner EXCEPT !.bigFilesLock[lockGo[g].ff] = NoOwner]
    /\ \E nextPc \in {"close", "dec"} :
        lockGo' = [lockGo EXCEPT ![g].pc = nextPc]
    /\ UNCHANGED <<notLock, lockHeap>>

\* fsSmallFileReader.Close, and bigFileReader.Close when Seek fails: the
\* handle is dropped and ff.decReadersCount() is called
LkCloseNoLock(g) ==
    /\ lockGo[g].pc = "close"
    /\ lockGo' = [lockGo EXCEPT ![g].pc = "dec"]
    /\ UNCHANGED <<notLock, lockOwner, lockHeap>>

\* bigFileReader.Close, r.f is no io.Seeker: r.f.Close() and the return of
\* "must implement io.Seeker", without a lock
LkCloseNoSeeker(g) ==
    /\ lockGo[g].pc = "close"
    /\ lockHeap.big[lockGo[g].ff]
    /\ lockGo' = [lockGo EXCEPT ![g] = NewLockGo]
    /\ UNCHANGED <<notLock, lockOwner, lockHeap>>

\* bigFileReader.Close, Seek returned (0, nil): ff.bigFilesLock.Lock()
LkCloseLock(g) ==
    /\ lockGo[g].pc = "close"
    /\ lockHeap.big[lockGo[g].ff]
    /\ LockGuard(lockOwner.bigFilesLock[lockGo[g].ff])
    /\ lockOwner' = [lockOwner EXCEPT !.bigFilesLock[lockGo[g].ff] = g]
    /\ lockGo' = [lockGo EXCEPT ![g].pc = "close_unlock"]
    /\ UNCHANGED <<notLock, lockHeap>>

\* ff.bigFiles = append(ff.bigFiles, r); ff.bigFilesLock.Unlock(); then
\* r.ff.decReadersCount()
LkCloseKeepsLock(g) ==
    /\ lockGo[g].pc = "close_unlock"
    /\ lockGo' = [lockGo EXCEPT ![g].pc = "dec"]
    /\ UNCHANGED <<notLock, lockOwner, lockHeap>>
LkCloseUnlock(g) ==
    /\ lockGo[g].pc = "close_unlock"
    /\ lockOwner' = [lockOwner EXCEPT !.bigFilesLock[lockGo[g].ff] = NoOwner]
    /\ lockGo' = [lockGo EXCEPT ![g].pc = "dec"]
    /\ UNCHANGED <<notLock, lockHeap>>

\* decReadersCount: cacheManager.WithLock of either manager, cacheLock.Lock()
LkDecLock(g) ==
    /\ lockGo[g].pc = "dec"
    /\ LockGuard(lockOwner.cacheLock)
    /\ lockOwner' = [lockOwner EXCEPT !.cacheLock = g]
    /\ lockGo' = [lockGo EXCEPT ![g].pc = "dec_unlock"]
    /\ UNCHANGED <<notLock, lockHeap>>

\* work(); cacheLock.Unlock(): the reference is given back
LkDecUnlock(g) ==
    /\ lockGo[g].pc = "dec_unlock"
    /\ lockOwner' = [lockOwner EXCEPT !.cacheLock = NoOwner]
    /\ lockGo' = [lockGo EXCEPT ![g] = NewLockGo]
    /\ UNCHANGED <<notLock, lockHeap>>

\* handleCleanCache, started by newCacheManager for the in-memory manager:
\* cleanCache, cm.cacheLock.Lock()
LkSweepLock ==
    /\ ~lockHeap.skipCache
    /\ lockGo[Sweeper].pc = "idle"
    /\ LockGuard(lockOwner.cacheLock)
    /\ lockOwner' = [lockOwner EXCEPT !.cacheLock = Sweeper]
    /\ lockGo' = [lockGo EXCEPT ![Sweeper].pc = "sweep_unlock"]
    /\ UNCHANGED <<notLock, lockHeap>>

\* cleanCacheNolock over the maps: some of the cached files leave the map
\* for filesToRelease (which ones depends on their age and readers, left
\* open here); cm.cacheLock.Unlock()
LkSweepUnlock ==
    /\ lockGo[Sweeper].pc = "sweep_unlock"
    /\ lockOwner' = [lockOwner EXCEPT !.cacheLock = NoOwner]
    /\ \E gone \in SUBSET {f \in LockPaths : lockHeap.cache[f] # Nil} :
        lockHeap' = [lockHeap EXCEPT
                        !.cache = [f \in LockPaths |->
                                     IF f \in gone THEN Nil ELSE @[f]],
                        !.filesToRelease = {lockHeap.cache[f] : f \in gone}]
    /\ lockGo' = [lockGo EXCEPT ![Sweeper].pc = "sweep_release"]
    /\ UNCHANGED notLock

\* for _, ff := range filesToRelease { ff.Release() }: a small file
LkSweepReleaseSmall ==
    /\ lockGo[Sweeper].pc = "sweep_release"
    /\ \E e \in lockHeap.filesToRelease :
        /\ ~lockHeap.big[e]
        /\ lockHeap' = [lockHeap EXCEPT !.filesToRelease = @ \ {e}]
    /\ UNCHANGED <<notLock, lockOwner, lockGo>>

\* ff.Release() of a big file: ff.bigFilesLock.Lock()
LkSweepReleaseLock ==
    /\ lockGo[Sweeper].pc = "sweep_release"
    /\ \E e \in lockHeap.filesToRelease :
        /\ lockHeap.big[e]
        /\ LockGuard(lockOwner.bigFilesLock[e])
        /\ lockOwner' = [lockOwner EXCEPT !.bigFilesLock[e] = Sweeper]
        /\ lockGo' = [lockGo EXCEPT ![Sweeper].ff = e,
                                    ![Sweeper].pc = "sweep_release_unlock"]
    /\ UNCHANGED <<notLock, lockHeap>>

\* the readers are closed; ff.bigFilesLock.Unlock()
LkSweepReleaseUnlock ==
    /\ lockGo[Sweeper].pc = "sweep_release_unlock"
    /\ lockOwner' = [lockOwner EXCEPT !.bigFilesLock[lockGo[Sweeper].ff] = NoOwner]
    /\ lockHeap' = [lockHeap EXCEPT !.filesToRelease = @ \ {lockGo[Sweeper].ff}]
    /\ lockGo' = [lockGo EXCEPT ![Sweeper].ff = Nil,
                                ![Sweeper].pc = "sweep_release"]
    /\ UNCHANGED notLock

\* return pendingFiles: back to the ticker / Sleep
LkSweepReturn ==
    /\ lockGo[Sweeper].pc = "sweep_release"
    /\ lockHeap.filesToRelease = {}
    /\ lockGo' = [lockGo EXCEPT ![Sweeper].pc = "idle"]
    /\ UNCHANGED <<notLock, lockOwner, lockHeap>>

LkRequest(g) ==
    \/ LkStart(g)
    \/ LkGetNoop(g)
    \/ LkGetLock(g)
    \/ LkGetUnlock(g)
    \/ LkOpenOk(g)
    \/ LkOpenFail(g)
    \/ LkCompress(g)
    \/ LkFileLock(g)
    \/ LkFileUnlock(g)
    \/ LkSetNoop(g)
    \/ LkSetLock(g)
    \/ LkSetUnlock(g)
    \/ LkReleaseSmall(g)
    \/ LkReleaseLock(g)
    \/ LkReleaseUnlock(g)
    \/ LkNotModified(g)
    \/ LkSmallFileReader(g)
    \/ LkBigFileReaderLock(g)
    \/ LkBigFileReaderUnlock(g)
    \/ LkCloseNoLock(g)
    \/ LkCloseNoSeeker(g)
    \/ LkCloseLock(g)
    \/ LkCloseUnlock(g)
    \/ LkDecLock(g)
    \/ LkDecUnlock(g)

LkSweep ==
    \/ LkSweepLock
    \/ LkSweepUnlock
    \/ LkSweepReleaseSmall
    \/ LkSweepReleaseLock
    \/ LkSweepReleaseUnlock
    \/ LkSweepReturn

\* the steps of one goroutine
LkStep(g) == IF g = Sweeper THEN LkSweep ELSE LkRequest(g)

LockNext ==
    \/ \E g \in Procs : LkRequest(g)
    \/ LkSweep

LockSpec == LockInit /\ [][LockNext]_vars

(* ----------------------- the readers of an entry ---------------------- *)
(* One reader object, fsSmallFileReader or bigFileReader, through its uses: *)
(* NewReader, UpdateByteRange, Read or WriteTo to the end, Close, and the   *)
(* next use of the same object out of the pool. The bytes of the file are   *)
(* named by their positions 0 .. contentLength - 1.                         *)

\* the longest file, the longest buffer handed to Read, the uses of a reader
MaxFileLen == 3
MaxBufLen == 2
MaxUses == 2

\* the least of two numbers
Min2(a, b) == IF a < b THEN a ELSE b
\* the positions from .. to - 1, in order
RECURSIVE Positions(_, _)
Positions(from, to) ==
    IF from >= to THEN <<>> ELSE <<from>> \o Positions(from + 1, to)

\* the kinds of entry: a small file (ff.f is an io.ReaderAt), an entry held
\* in memory (ff.f == nil, the bytes are ff.dirIndex), a big file
ReaderKinds == {"smallFile", "dirIndex", "big"}

\* &fsSmallFileReader{} resp. &bigFileReader{f: f, ff: ff, r: f}
NewReaderObject ==
    [startPos |-> 0, endPos |-> 0, offset |-> 0, limited |-> FALSE, n |-> 0]

\* fsFile.smallFileReader: r.endPos = ff.contentLength; a reader of the pool
\* with startPos > 0 is the error "bug: ..."
SmallFileReader(r, length) == [r EXCEPT !.endPos = length]

\* fsSmallFileReader.UpdateByteRange
SmallUpdateByteRangeExclusive(r, startPos, endPos) ==
    [r EXCEPT !.startPos = startPos, !.endPos = endPos]
SmallUpdateByteRange(r, startPos, endPos) ==
    [r EXCEPT !.startPos = startPos, !.endPos = endPos + 1]

\* fsSmallFileReader.Read(p) with len(p) = plen on an entry of the given
\* length: the number of bytes copied, from startPos on
SmallReadCount(r, plen, length) ==
    LET tailLen == r.endPos - r.startPos IN
    IF tailLen <= 0 THEN 0
    ELSE Min2(Min2(plen, tailLen), length - r.startPos)

\* fsSmallFileReader.Close: r.startPos = 0; r.endPos = 0; pool.Put(r)
SmallCloseKeepsPos(r) == r
SmallClose(r) == [r EXCEPT !.startPos = 0, !.endPos = 0]

\* bigFileReader.UpdateByteRange: Seek(startPos, io.SeekStart); r.r = &r.lr;
\* r.lr.R = r.f; r.lr.N = endPos - startPos + 1
BigUpdateByteRange(r, startPos, endPos) ==
    [r EXCEPT !.offset = startPos, !.limited = TRUE, !.n = endPos - startPos + 1]

\* bigFileReader.Read(p) = r.r.Read(p): the file itself, or the
\* io.LimitedReader around it
BigReadCount(r, plen, length) ==
    IF r.limited
    THEN IF r.n <= 0 THEN 0 ELSE Min2(Min2(plen, r.n), length - r.offset)
    ELSE Min2(plen, length - r.offset)

\* bigFileReader.Close with Seek(0, io.SeekStart) = (0, nil): r.r = r.f and
\* the reader goes back to ff.bigFiles
BigCloseKeepsLimit(r) == [r EXCEPT !.offset = 0]
BigClose(r) == [r EXCEPT !.offset = 0, !.limited = FALSE]

NewReading ==
    [pc |-> "new", use |-> 0, kind |-> "", length |-> 0, ranged |-> FALSE,
     startPos |-> 0, endPos |-> 0, method |-> "", readerFrom |-> FALSE,
     curPos |-> 0, out |-> <<>>, err |-> "nil"]

ReadInit ==
    /\ LockIdle
    /\ OpenIdle
    /\ PoolIdle
    /\ CacheIdle
    /\ RangeIdle
    /\ RespIdle
    /\ CompIdle
    /\ FrontIdle
    /\ reader = NewReaderObject
    /\ \E kind \in ReaderKinds :
        reading = [NewReading EXCEPT !.kind = kind]

\* ff.NewReader() of an entry of some length: the reader object is new at its
\* first use and comes out of the pool afterwards
ReadNewReader ==
    /\ reading.pc = "new"
    /\ reading.use < MaxUses
    /\ \E length \in 0 .. MaxFileLen, method \in {"Read", "WriteTo"},
          rf \in BOOLEAN :
        /\ rf => method = "WriteTo"
        /\ reading' = [NewReading EXCEPT
                        !.kind = reading.kind, !.use = reading.use + 1,
                        !.length = length, !.method = method,
                        !.readerFrom = rf,
                        !.err = IF reading.kind # "big" /\ reader.startPos > 0
                                THEN "bug: fsSmallFileReader with non-nil startPos found in the pool"
                                ELSE "nil",
                        !.pc = IF reading.kind # "big" /\ reader.startPos > 0
                               THEN "failed" ELSE "opened"]
        /\ reader' = IF reading.kind = "big" THEN reader
                     ELSE SmallFileReader(reader, length)
    /\ UNCHANGED notRead

\* r.UpdateByteRange(startPos, endPos) with 0 <= startPos <= endPos <
\* contentLength, as ParseByteRange returns them
ReadUpdateByteRange ==
    /\ reading.pc = "opened"
    /\ \E startPos, endPos \in 0 .. reading.length - 1 :
        /\ startPos <= endPos
        /\ reader' = IF reading.kind = "big"
                     THEN BigUpdateByteRange(reader, startPos, endPos)
                     ELSE SmallUpdateByteRange(reader, startPos, endPos)
        /\ reading' = [reading EXCEPT !.ranged = TRUE, !.startPos = startPos,
                                      !.endPos = endPos, !.curPos = startPos,
                                      !.pc = "ready"]
    /\ UNCHANGED notRead

\* no byte range: the reader is used as NewReader returned it
ReadWhole ==
    /\ reading.pc = "opened"
    /\ reading' = [reading EXCEPT !.pc = "ready"]
    /\ UNCHANGED <<notRead, reader>>

\* one Read(p) of the reader, called by the sink directly or by what
\* WriteTo hands the reader to (rf.ReadFrom of a sink that is an
\* io.ReaderFrom, copyZeroAlloc for the big reader); 0 bytes is io.EOF
ReadStep ==
    /\ reading.pc = "ready"
    /\ \/ reading.method = "Read"
       \/ reading.kind = "big"
       \/ reading.kind = "smallFile" /\ reading.readerFrom
    /\ \E plen \in 1 .. MaxBufLen :
        IF reading.kind = "big"
        THEN LET k == BigReadCount(reader, plen, reading.length) IN
             /\ reader' = [reader EXCEPT !.offset = @ + k,
                                         !.n = IF reader.limited THEN @ - k ELSE @]
             /\ reading' = [reading EXCEPT
                             !.out = @ \o Positions(reader.offset, reader.offset + k),
                             !.pc = IF k = 0 THEN "eof" ELSE "ready"]
        ELSE LET k == SmallReadCount(reader, plen, reading.length) IN
             /\ reader' = [reader EXCEPT !.startPos = @ + k]
             /\ reading' = [reading EXCEPT
                             !.out = @ \o Positions(reader.startPos, reader.startPos + k),
                             !.pc = IF k = 0 THEN "eof" ELSE "ready"]
    /\ UNCHANGED notRead

\* fsSmallFileReader.WriteTo, ff.f == nil:
\* w.Write(ff.dirIndex[r.startPos:r.endPos])
ReadWriteToDirIndex ==
    /\ reading.pc = "ready"
    /\ reading.method = "WriteTo"
    /\ reading.kind = "dirIndex"
    /\ reading' = [reading EXCEPT
                    !.out = Positions(reader.startPos, reader.endPos),
                    !.pc = "eof"]
    /\ UNCHANGED <<notRead, reader>>

\* fsSmallFileReader.WriteTo, the loop over a buffer of the copy pool:
\* ReadAt(buf, curPos) of at most tailLen bytes, w.Write(buf[:n]); the loop
\* ends with tailLen <= 0
ReadWriteToLoop ==
    /\ reading.pc = "ready"
    /\ reading.method = "WriteTo"
    /\ reading.kind = "smallFile"
    /\ ~reading.readerFrom
    /\ LET curPos == IF reading.out = <<>> THEN reader.startPos ELSE reading.curPos
           tailLen == reader.endPos - curPos
       IN
       IF tailLen <= 0
       THEN reading' = [reading EXCEPT !.pc = "eof"]
       ELSE \E buflen \in 1 .. MaxBufLen :
            LET k == Min2(Min2(buflen, tailLen), reading.length - curPos) IN
            reading' = [reading EXCEPT
                         !.out = @ \o Positions(curPos, curPos + k),
                         !.curPos = curPos + k,
                         !.pc = IF k = 0 THEN "eof" ELSE "ready"]
    /\ UNCHANGED <<notRead, reader>>

\* r.Close(), after the last byte or before it: the reader goes back to its
\* pool for the next use
ReadClose ==
    /\ reading.pc \in {"opened", "ready", "eof"}
    /\ reader' = IF reading.kind = "big" THEN BigClose(reader) ELSE SmallClose(reader)
    /\ reading' = [reading EXCEPT !.pc = "new"]
    /\ UNCHANGED notRead

ReadNext ==
    \/ ReadNewReader
    \/ ReadUpdateByteRange
    \/ ReadWhole
    \/ ReadStep
    \/ ReadWriteToDirIndex
    \/ ReadWriteToLoop
    \/ ReadClose

ReadSpec == ReadInit /\ [][ReadNext]_vars

(* ------------------ the reader pools of the entries ------------------- *)
(* Request goroutines and the sweep around the readers of the entries: the  *)
(* handle of each fsFile (ff.f), the handles of its big readers (r.f), the  *)
(* pool ff.bigFiles, the handler's smallFileReaderPool, readersCount and    *)
(* Release. The critical sections of cacheLock and bigFilesLock are single  *)
(* steps here. The entries are those of one file of PoolFileLen bytes,     *)
(* above or below the size limit of the small files.                        *)

\* requests served in one run; each takes one reader at most
MaxPoolRequests == 2

\* the length of every file: one full buffer of the sink
PoolFileLen == MaxBufLen

PoolEntries == {1, 2}
PoolReaders == 1 .. MaxPoolRequests

NoPoolFile ==
    [big |-> FALSE, readersCount |-> 0, fOpen |-> FALSE, released |-> FALSE,
     bigFiles |-> <<>>]
NoPoolObj == [fields |-> NewReaderObject, ff |-> Nil, handle |-> "none"]
NewPoolReq == [pc |-> "idle", ff |-> Nil, cand |-> Nil, r |-> Nil]

PoolInit ==
    /\ LockIdle
    /\ OpenIdle
    /\ ReadIdle
    /\ CacheIdle
    /\ RangeIdle
    /\ RespIdle
    /\ CompIdle
    /\ FrontIdle
    /\ poolFile = [e \in PoolEntries |-> NoPoolFile]
    /\ poolObj = [i \in PoolReaders |-> NoPoolObj]
    /\ poolReq = [p \in Procs |-> NewPoolReq]
    /\ \E seeker, big \in BOOLEAN :
        poolMisc = [cache |-> Nil, pendingFiles |-> {}, filesToRelease |-> {},
                    smallPool |-> {}, nextObj |-> 1, nextEntry |-> 1,
                    started |-> 0, isSeeker |-> seeker, isBig |-> big]

\* the elements of a sequence
Range(seq) == {seq[i] : i \in 1 .. Len(seq)}

\* fsFile.Release: ff.f.Close() and, for a big file, r.f.Close() of every
\* reader in ff.bigFiles
ReleasedFile(file) == [file EXCEPT !.fOpen = FALSE, !.released = TRUE]
ReleasedObjs(objs, file) ==
    [i \in PoolReaders |->
        IF file.big /\ i \in Range(file.bigFiles)
        THEN [objs[i] EXCEPT !.handle = "closed"]
        ELSE objs[i]]

\* handleRequest up to GetFileFromCache: a hit counts the reader, a miss goes
\* on to openFSFile
PoolGet(p) ==
    /\ poolReq[p].pc = "idle"
    /\ poolMisc.started < MaxPoolRequests
    /\ poolMisc' = [poolMisc EXCEPT !.started = @ + 1]
    /\ LET e == poolMisc.cache IN
        IF e # Nil
        THEN /\ poolFile' = [poolFile EXCEPT ![e].readersCount = GetIncValue(@)]
             /\ poolReq' = [poolReq EXCEPT ![p].ff = e, ![p].pc = "cond"]
        ELSE /\ poolReq' = [poolReq EXCEPT ![p].pc = "open"]
             /\ UNCHANGED poolFile
    /\ UNCHANGED <<notPool, poolObj>>

\* openFSFile: a new fsFile with its handle ff.f, big or small as the file
\* on the disk is
PoolOpen(p) ==
    /\ poolReq[p].pc = "open"
    /\ poolMisc.nextEntry \in PoolEntries
    /\ LET e == poolMisc.nextEntry IN
        /\ poolFile' = [poolFile EXCEPT ![e] = [NoPoolFile EXCEPT !.big = poolMisc.isBig,
                                                                 !.fOpen = TRUE]]
        /\ poolMisc' = [poolMisc EXCEPT !.nextEntry = e + 1]
        /\ poolReq' = [poolReq EXCEPT ![p].cand = e, ![p].pc = "set"]
    /\ UNCHANGED <<notPool, poolObj>>

\* openFSFile fails: the handler returns
PoolOpenFail(p) ==
    /\ poolReq[p].pc = "open"
    /\ poolReq' = [poolReq EXCEPT ![p] = NewPoolReq]
    /\ UNCHANGED <<notPool, poolFile, poolObj, poolMisc>>

\* SetFileToCache up to cacheLock.Unlock(): the candidate is stored, or the
\* stored entry is counted and the candidate is left for Release
PoolSet(p) ==
    /\ poolReq[p].pc = "set"
    /\ LET old == poolMisc.cache
           e == poolReq[p].cand
       IN
        IF old = Nil
        THEN /\ poolMisc' = [poolMisc EXCEPT !.cache = e]
             /\ poolFile' = [poolFile EXCEPT ![e].readersCount = GetIncValue(@)]
             /\ poolReq' = [poolReq EXCEPT ![p].ff = e, ![p].cand = Nil,
                                           ![p].pc = "cond"]
        ELSE /\ poolFile' = [poolFile EXCEPT ![old].readersCount = GetIncValue(@)]
             /\ poolReq' = [poolReq EXCEPT ![p].ff = old, ![p].pc = "set_release"]
             /\ UNCHANGED poolMisc
    /\ UNCHANGED <<notPool, poolObj>>

\* if ok { ff.Release(); ff = ff1 }
PoolSetRelease(p) ==
    /\ poolReq[p].pc = "set_release"
    /\ LET e == poolReq[p].cand IN
        /\ poolObj' = ReleasedObjs(poolObj, poolFile[e])
        /\ poolFile' = [poolFile EXCEPT ![e] = ReleasedFile(@)]
    /\ poolReq' = [poolReq EXCEPT ![p].cand = Nil, ![p].pc = "cond"]
    /\ UNCHANGED <<notPool, poolMisc>>

\* if !ctx.IfModifiedSince(ff.lastModified) { ff.decReadersCount() }
PoolNotModified(p) ==
    /\ poolReq[p].pc = "cond"
    /\ poolFile' = [poolFile EXCEPT ![poolReq[p].ff].readersCount = DecValue(@)]
    /\ poolReq' = [poolReq EXCEPT ![p] = NewPoolReq]
    /\ UNCHANGED <<notPool, poolObj, poolMisc>>

\* fsFile.smallFileReader: a reader out of smallFileReaderPool or a new one;
\* r.ff = ff; r.endPos = ff.contentLength; a reader with startPos > 0 is the
\* error "bug: ..."
PoolSmallFileReader(p) ==
    /\ poolReq[p].pc = "cond"
    /\ ~poolFile[poolReq[p].ff].big
    /\ \E i \in poolMisc.smallPool \cup {poolMisc.nextObj} :
        /\ i \in PoolReaders
        /\ poolMisc' = [poolMisc EXCEPT
                            !.smallPool = @ \ {i},
                            !.nextObj = IF i = @ THEN @ + 1 ELSE @]
        /\ poolObj' = [poolObj EXCEPT
                            ![i].ff = poolReq[p].ff,
                            ![i].fields = SmallFileReader(@, PoolFileLen)]
        /\ poolReq' = IF poolObj[i].fields.startPos > 0
                      THEN [poolReq EXCEPT ![p] = NewPoolReq]
                      ELSE [poolReq EXCEPT ![p].r = i, ![p].pc = "opened"]
    /\ UNCHANGED <<notPool, poolFile>>

\* fsFile.bigFileReader: the last reader of ff.bigFiles, taken under
\* bigFilesLock
PoolBigFileReader(p) ==
    /\ poolReq[p].pc = "cond"
    /\ LET e == poolReq[p].ff
           n == Len(poolFile[e].bigFiles)
       IN
        /\ poolFile[e].big
        /\ n > 0
        /\ poolReq' = [poolReq EXCEPT ![p].r = poolFile[e].bigFiles[n],
                                      ![p].pc = "opened"]
        /\ poolFile' = [poolFile EXCEPT ![e].bigFiles = SubSeq(@, 1, n - 1)]
    /\ UNCHANGED <<notPool, poolObj, poolMisc>>

\* fsFile.bigFileReader with ff.bigFiles empty: h.filesystem.Open(ff.filename)
\* and a new bigFileReader around the handle
PoolBigFileOpen(p) ==
    /\ poolReq[p].pc = "cond"
    /\ LET e == poolReq[p].ff
           i == poolMisc.nextObj
       IN
        /\ poolFile[e].big
        /\ poolFile[e].bigFiles = <<>>
        /\ i \in PoolReaders
        /\ poolObj' = [poolObj EXCEPT ![i] = [NoPoolObj EXCEPT !.ff = e,
                                                              !.handle = "open"]]
        /\ poolMisc' = [poolMisc EXCEPT !.nextObj = i + 1]
        /\ poolReq' = [poolReq EXCEPT ![p].r = i, ![p].pc = "opened"]
    /\ UNCHANGED <<notPool, poolFile>>

\* the Open fails: NewReader calls ff.decReadersCount()
PoolBigFileOpenFail(p) ==
    /\ poolReq[p].pc = "cond"
    /\ poolFile[poolReq[p].ff].big
    /\ poolFile[poolReq[p].ff].bigFiles = <<>>
    /\ poolFile' = [poolFile EXCEPT ![poolReq[p].ff].readersCount = DecValue(@)]
    /\ poolReq' = [poolReq EXCEPT ![p] = NewPoolReq]
    /\ UNCHANGED <<notPool, poolObj, poolMisc>>

\* r.UpdateByteRange(startPos, endPos); the big reader's fails without an
\* io.Seeker or when Seek fails, and the handler closes the reader
PoolUpdateByteRange(p) ==
    /\ poolReq[p].pc = "opened"
    /\ LET i == poolReq[p].r
           big == poolFile[poolReq[p].ff].big
       IN
        \E startPos, endPos \in 0 .. PoolFileLen - 1, fails \in BOOLEAN :
            /\ startPos <= endPos
            /\ fails => big
            /\ big /\ ~poolMisc.isSeeker => fails
            /\ poolObj' =
                IF fails THEN poolObj
                ELSE [poolObj EXCEPT ![i].fields =
                        IF big THEN BigUpdateByteRange(@, startPos, endPos)
                        ELSE SmallUpdateByteRange(@, startPos, endPos)]
            /\ poolReq' = [poolReq EXCEPT ![p].pc = IF fails THEN "close" ELSE "reading"]
    /\ UNCHANGED <<notPool, poolFile, poolMisc>>

\* the sink reads: one Read(p) that returns bytes
PoolRead(p) ==
    /\ poolReq[p].pc \in {"opened", "reading"}
    /\ LET i == poolReq[p].r
           big == poolFile[poolReq[p].ff].big
       IN
        \E plen \in 1 .. MaxBufLen :
            LET k == IF big THEN BigReadCount(poolObj[i].fields, plen, PoolFileLen)
                     ELSE SmallReadCount(poolObj[i].fields, plen, PoolFileLen)
            IN
            /\ k > 0
            /\ poolObj' = [poolObj EXCEPT ![i].fields =
                            IF big
                            THEN [@ EXCEPT !.offset = @ + k,
                                           !.n = IF poolObj[i].fields.limited
                                                 THEN @ - k ELSE @]
                            ELSE [@ EXCEPT !.startPos = @ + k]]
    /\ poolReq' = [poolReq EXCEPT ![p].pc = "reading"]
    /\ UNCHANGED <<notPool, poolFile, poolMisc>>

\* the request holds a reader that it may close: the sink is done with it,
\* or the handler closes it (HEAD, a range that failed)
Closing(p) == poolReq[p].pc \in {"opened", "reading", "close"}

\* fsSmallFileReader.Close: ff.decReadersCount() comes first
PoolCloseSmallDec(p) ==
    /\ Closing(p)
    /\ LET e == poolReq[p].ff IN
        /\ ~poolFile[e].big
        /\ poolFile' = [poolFile EXCEPT ![e].readersCount = DecValue(@)]
    /\ poolReq' = [poolReq EXCEPT ![p].pc = "put"]
    /\ UNCHANGED <<notPool, poolObj, poolMisc>>

\* r.ff = nil; r.startPos = 0; r.endPos = 0; smallFileReaderPool.Put(r)
PoolCloseSmallPut(p) ==
    /\ poolReq[p].pc = "put"
    /\ LET i == poolReq[p].r IN
        /\ poolObj' = [poolObj EXCEPT ![i].ff = Nil, ![i].fields = SmallClose(@)]
        /\ poolMisc' = [poolMisc EXCEPT !.smallPool = @ \cup {i}]
    /\ poolReq' = [poolReq EXCEPT ![p] = NewPoolReq]
    /\ UNCHANGED <<notPool, poolFile>>

\* bigFileReader.Close, r.f is no io.Seeker: r.f.Close() and the error
PoolCloseBigNoSeeker(p) ==
    /\ Closing(p)
    /\ poolFile[poolReq[p].ff].big
    /\ ~poolMisc.isSeeker
    /\ poolObj' = [poolObj EXCEPT ![poolReq[p].r].handle = "closed"]
    /\ poolReq' = [poolReq EXCEPT ![p] = NewPoolReq]
    /\ UNCHANGED <<notPool, poolFile, poolMisc>>

\* bigFileReader.Close, Seek(0, io.SeekStart) fails: r.f.Close(), then
\* r.ff.decReadersCount()
PoolCloseBigSeekFails(p) ==
    /\ Closing(p)
    /\ poolFile[poolReq[p].ff].big
    /\ poolMisc.isSeeker
    /\ poolObj' = [poolObj EXCEPT ![poolReq[p].r].handle = "closed"]
    /\ poolReq' = [poolReq EXCEPT ![p].r = Nil, ![p].pc = "dec"]
    /\ UNCHANGED <<notPool, poolFile, poolMisc>>

\* bigFileReader.Close, Seek returned (0, nil): r.r = r.f and
\* ff.bigFiles = append(ff.bigFiles, r) under bigFilesLock, then
\* r.ff.decReadersCount()
PoolCloseBigDecOnly(p) ==
    /\ Closing(p)
    /\ LET e == poolReq[p].ff
           i == poolReq[p].r
       IN
        /\ poolFile[e].big
        /\ poolMisc.isSeeker
        /\ poolObj' = [poolObj EXCEPT ![i].fields = BigClose(@)]
    /\ poolReq' = [poolReq EXCEPT ![p].r = Nil, ![p].pc = "dec"]
    /\ UNCHANGED <<notPool, poolFile, poolMisc>>
PoolCloseBig(p) ==
    /\ Closing(p)
    /\ LET e == poolReq[p].ff
           i == poolReq[p].r
       IN
        /\ poolFile[e].big
        /\ poolMisc.isSeeker
        /\ poolObj' = [poolObj EXCEPT ![i].fields = BigClose(@)]
        /\ poolFile' = [poolFile EXCEPT ![e].bigFiles = Append(@, i)]
    /\ poolReq' = [poolReq EXCEPT ![p].r = Nil, ![p].pc = "dec"]
    /\ UNCHANGED <<notPool, poolMisc>>

\* ff.decReadersCount(), under the cache lock
PoolDec(p) ==
    /\ poolReq[p].pc = "dec"
    /\ poolFile' = [poolFile EXCEPT ![poolReq[p].ff].readersCount = DecValue(@)]
    /\ poolReq' = [poolReq EXCEPT ![p] = NewPoolReq]
    /\ UNCHANGED <<notPool, poolObj, poolMisc>>

\* cleanCache under the cache lock: the pending files without readers are to
\* be released, the entry of the map, when its time is up, leaves the map and
\* is to be released or stays pending while it has readers
PoolSweep ==
    /\ poolMisc.filesToRelease = {}
    /\ \E stale \in SUBSET ({poolMisc.cache} \ {Nil}) :
        LET candidates == poolMisc.pendingFiles \cup stale
            idleFiles == {e \in candidates : ~HasReaders(poolFile[e].readersCount)}
        IN
        /\ candidates # {}
        /\ poolMisc' = [poolMisc EXCEPT
                            !.cache = IF stale = {} THEN @ ELSE Nil,
                            !.pendingFiles = candidates \ idleFiles,
                            !.filesToRelease = idleFiles]
    /\ UNCHANGED <<notPool, poolFile, poolObj, poolReq>>

\* for _, ff := range filesToRelease { ff.Release() }
PoolSweepRelease ==
    /\ \E e \in poolMisc.filesToRelease :
        /\ poolObj' = ReleasedObjs(poolObj, poolFile[e])
        /\ poolFile' = [poolFile EXCEPT ![e] = ReleasedFile(@)]
        /\ poolMisc' = [poolMisc EXCEPT !.filesToRelease = @ \ {e}]
    /\ UNCHANGED <<notPool, poolReq>>

PoolRequest(p) ==
    \/ PoolGet(p)
    \/ PoolOpen(p)
    \/ PoolOpenFail(p)
    \/ PoolSet(p)
    \/ PoolSetRelease(p)
    \/ PoolNotModified(p)
    \/ PoolSmallFileReader(p)
    \/ PoolBigFileReader(p)
    \/ PoolBigFileOpen(p)
    \/ PoolBigFileOpenFail(p)
    \/ PoolUpdateByteRange(p)
    \/ PoolRead(p)
    \/ PoolCloseSmallDec(p)
    \/ PoolCloseSmallPut(p)
    \/ PoolCloseBigNoSeeker(p)
    \/ PoolCloseBigSeekFails(p)
    \/ PoolCloseBig(p)
    \/ PoolDec(p)

PoolNext ==
    \/ \E p \in Procs : PoolRequest(p)
    \/ PoolSweep
    \/ PoolSweepRelease

PoolSpec == PoolInit /\ [][PoolNext]_vars

(* ------------- the handles of one call of openFSFile ------------------ *)
(* One goroutine calls openFSFile again and again; every Open, Stat,       *)
(* MkdirAll, Create, compression and header read may fail. The handles are *)
(* named after the variable that holds them: "f" of openFSFile, "f" of     *)
(* compressAndOpenFSFile ("src"), "zf" of compressFileNolock, "f" of       *)
(* newCompressedFSFile ("cf").                                              *)

\* calls of openFSFile in one run
MaxOpenCalls == 2

NewOpening ==
    [pc |-> "idle", mustCompress |-> FALSE, isOS |-> FALSE, compressRoot |-> FALSE,
     open |-> {}, cur |-> "", ret |-> "none", calls |-> 0, leaked |-> 0, entries |-> 0]

OpenInit ==
    /\ LockIdle
    /\ CacheIdle
    /\ RangeIdle
    /\ RespIdle
    /\ CompIdle
    /\ FrontIdle
    /\ ReadIdle
    /\ PoolIdle
    /\ opening = NewOpening

\* the function returns an error / hands handle h on to newFSFile
Failed(o) == [o EXCEPT !.pc = "ret", !.ret = "err"]
Closed(o, h) == [o EXCEPT !.open = @ \ {h}]
Opened(o, h) == [o EXCEPT !.open = @ \cup {h}]
ToNewFSFile(o, h) == [o EXCEPT !.pc = "new", !.cur = h]

\* handleRequest calls h.openFSFile(filePath, mustCompress, fileEncoding);
\* the filesystem is the OS or not, FS.CompressRoot is set or not
OpenCall ==
    /\ opening.pc = "idle"
    /\ opening.calls < MaxOpenCalls
    /\ \E mustCompress, isOS, compressRoot \in BOOLEAN :
        opening' = [opening EXCEPT !.pc = "open", !.ret = "none", !.cur = "",
                                   !.mustCompress = mustCompress, !.isOS = isOS,
                                   !.compressRoot = compressRoot,
                                   !.calls = @ + 1]
    /\ UNCHANGED notOpen

\* openFSFile: f, err := h.filesystem.Open(filePath)
OpenFile ==
    /\ opening.pc = "open"
    /\ \E outcome \in {"ok", "not exist", "error"} :
        opening' =
            CASE outcome = "ok" -> [Opened(opening, "f") EXCEPT !.pc = "stat"]
              [] outcome = "not exist" /\ opening.mustCompress ->
                    [opening EXCEPT !.pc = "c_open"]
              [] OTHER -> Failed(opening)
    /\ UNCHANGED notOpen

\* openFSFile: f.Stat() and fileInfo.IsDir()
OpenStat ==
    /\ opening.pc = "stat"
    /\ \E outcome \in {"ok", "stat fails", "directory"} :
        opening' =
            IF outcome # "ok" THEN Failed(Closed(opening, "f"))
            ELSE IF opening.mustCompress THEN [opening EXCEPT !.pc = "stat_orig"]
            ELSE ToNewFSFile(opening, "f")
    /\ UNCHANGED notOpen

\* openFSFile, mustCompress: fs.Stat of the original and the test of the age
OpenStatOriginal ==
    /\ opening.pc = "stat_orig"
    /\ \E outcome \in {"fresh", "stat fails", "stale"} :
        opening' =
            CASE outcome = "fresh" -> ToNewFSFile(opening, "f")
              [] outcome = "stat fails" -> Failed(Closed(opening, "f"))
              [] OTHER -> [Closed(opening, "f") EXCEPT !.pc = "c_open"]
    /\ UNCHANGED notOpen

\* compressAndOpenFSFile: f, err := h.filesystem.Open(filePath)
CompOpen ==
    /\ opening.pc = "c_open"
    /\ \E ok \in BOOLEAN :
        opening' = IF ok THEN [Opened(opening, "src") EXCEPT !.pc = "c_stat"]
                   ELSE Failed(opening)
    /\ UNCHANGED notOpen

\* compressAndOpenFSFile: f.Stat(), fileInfo.IsDir(), and the file that is
\* not to be compressed, or is compressed in memory, or on the disk
CompStat ==
    /\ opening.pc = "c_stat"
    /\ \E outcome \in {"stat fails", "directory", "as it is", "compress"} :
        opening' =
            CASE outcome \in {"stat fails", "directory"} -> Failed(Closed(opening, "src"))
              [] outcome = "as it is" -> ToNewFSFile(opening, "src")
              [] OTHER -> [opening EXCEPT !.pc = IF opening.isOS THEN "mkdir"
                                                 ELSE "memcache"]
    /\ UNCHANGED notOpen

\* compressAndOpenFSFile: if compressedFilePath != filePath { os.MkdirAll }:
\* the error is returned as it is
CompMkdirAll ==
    /\ opening.pc = "mkdir"
    /\ \E fails \in BOOLEAN :
        /\ fails => opening.compressRoot
        /\ opening' = IF fails THEN Failed(opening)
                      ELSE [opening EXCEPT !.pc = "abs"]
    /\ UNCHANGED notOpen

\* compressAndOpenFSFile: filepath.Abs(compressedFilePath)
CompAbs ==
    /\ opening.pc = "abs"
    /\ \E fails \in BOOLEAN :
        opening' = IF fails THEN Failed(Closed(opening, "src"))
                   ELSE [opening EXCEPT !.pc = "nolock"]
    /\ UNCHANGED notOpen

\* compressFileNolock: os.Stat(compressedFilePath) finds the artifact of
\* another goroutine, or not
NolockStat ==
    /\ opening.pc = "nolock"
    /\ \E found \in BOOLEAN :
        opening' = IF found THEN [Closed(opening, "src") EXCEPT !.pc = "nc_open"]
                   ELSE [opening EXCEPT !.pc = "create"]
    /\ UNCHANGED notOpen

\* compressFileNolock: zf, err := os.Create(tmpFilePath)
NolockCreate ==
    /\ opening.pc = "create"
    /\ \E ok \in BOOLEAN :
        opening' = IF ok THEN [Opened(opening, "zf") EXCEPT !.pc = "compress"]
                   ELSE Failed(Closed(opening, "src"))
    /\ UNCHANGED notOpen

\* compressFileNolock: the copy through the compressor, zf.Close(), f.Close()
NolockCompress ==
    /\ opening.pc = "compress"
    /\ \E ok \in BOOLEAN :
        LET done == Closed(Closed(opening, "zf"), "src") IN
        opening' = IF ok THEN [done EXCEPT !.pc = "rename"] ELSE Failed(done)
    /\ UNCHANGED notOpen

\* compressFileNolock: os.Chtimes and os.Rename
NolockRename ==
    /\ opening.pc = "rename"
    /\ \E ok \in BOOLEAN :
        opening' = IF ok THEN [opening EXCEPT !.pc = "nc_open"] ELSE Failed(opening)
    /\ UNCHANGED notOpen

\* newCompressedFSFile: f, err := h.filesystem.Open(filePath)
NewCompressedOpen ==
    /\ opening.pc = "nc_open"
    /\ \E ok \in BOOLEAN :
        opening' = IF ok THEN [Opened(opening, "cf") EXCEPT !.pc = "nc_stat"]
                   ELSE Failed(opening)
    /\ UNCHANGED notOpen

\* newCompressedFSFile: f.Stat()
NewCompressedStat ==
    /\ opening.pc = "nc_stat"
    /\ \E ok \in BOOLEAN :
        opening' = IF ok THEN ToNewFSFile(opening, "cf")
                   ELSE Failed(Closed(opening, "cf"))
    /\ UNCHANGED notOpen

\* newCompressedFSFileCache: defer f.Close(); the entry holds the bytes and
\* no handle
NewCompressedFSFileCache ==
    /\ opening.pc = "memcache"
    /\ \E ok \in BOOLEAN :
        LET done == Closed(opening, "src") IN
        opening' = IF ok THEN [done EXCEPT !.pc = "ret", !.ret = "ok"] ELSE Failed(done)
    /\ UNCHANGED notOpen

\* newFSFile: the file too big for an int is closed; an error of
\* readFileHeader is returned as it is; the entry keeps the handle as ff.f
NewFSFile ==
    /\ opening.pc = "new"
    /\ \E outcome \in {"ok", "too big", "header fails"} :
        opening' =
            CASE outcome = "ok" -> [opening EXCEPT !.pc = "ret", !.ret = "ok"]
              [] outcome = "too big" -> Failed(Closed(opening, opening.cur))
              [] OTHER -> Failed(opening)
    /\ UNCHANGED notOpen

\* openFSFile has returned: the entry owns its handle, the handles a failed
\* call left open belong to nobody
OpenFSFileReturns ==
    /\ opening.pc = "ret"
    /\ opening' = [opening EXCEPT
                        !.pc = "idle",
                        !.open = {},
                        !.entries = IF opening.ret = "ok" THEN @ + 1 ELSE @,
                        !.leaked = IF opening.ret = "err"
                                   THEN @ + Cardinality(opening.open) ELSE @]
    /\ UNCHANGED notOpen

OpenNext ==
    \/ OpenCall
    \/ OpenFile
    \/ OpenStat
    \/ OpenStatOriginal
    \/ CompOpen
    \/ CompStat
    \/ CompMkdirAll
    \/ CompAbs
    \/ NolockStat
    \/ NolockCreate
    \/ NolockCompress
    \/ NolockRename
    \/ NewCompressedOpen
    \/ NewCompressedStat
    \/ NewCompressedFSFileCache
    \/ NewFSFile
    \/ OpenFSFileReturns

OpenSpec == OpenInit /\ [][OpenNext]_vars

(* ------------------------- derived notions ---------------------------- *)

\* positions at which a request holds the entry ff that the cache manager
\* returned to it
HoldPcs == {"cond", "stream", "close", "dec_lock"}

\* positions inside a critical section of cacheLock
CritPcs == {"get_crit", "set_crit", "dec_crit"}

\* the entry a request holds a counted reference to, while no request is
\* inside a critical section
RefOf(p) ==
    IF pc[p] \in HoldPcs THEN ff[p]
    ELSE IF pc[p] = "set_release" THEN ff1[p]
    ELSE Nil

Indexed(e) == \E k \in Kinds, key \in Keys : cache[k][key] = e

(* ------------------------------- claims ------------------------------- *)

\* C1: first writer wins. An entry stored in a map is never replaced by
\* another entry (only a sweep removes it); SetFileToCache for a key that is
\* present leaves the map alone, releases the candidate it was given and
\* returns the stored entry; so the entry a request holds is the one indexed
\* under its (kind, path), unless a sweep has evicted it since.
FirstWriterWins ==
    /\ [](~skipCache =>
            \A p \in Procs : pc[p] \in HoldPcs =>
                \/ cache[reqKind[p]][reqKey[p]] = ff[p]
                \/ ff[p] \in pendingFiles)
    /\ [][/\ \A k \in Kinds, key \in Keys :
                cache[k][key] # Nil =>
                    \/ cache'[k][key] = cache[k][key]
                    \/ cache'[k][key] = Nil /\ swpc = "scan" /\ SweepOrder[swI] = k
          /\ \A p \in Procs :
                /\ (pc[p] = "set" /\ pc'[p] = "set_crit"
                        /\ cache[reqKind[p]][reqKey[p]] # Nil) =>
                    /\ cache' = cache
                    /\ ff1'[p] = cache[reqKind[p]][reqKey[p]]
                /\ (pc[p] = "set_release" /\ pc'[p] # "set_release") =>
                    /\ released'[cand[p]]
                    /\ ff'[p] = ff1[p]
                    /\ ff'[p] = cache[reqKind[p]][reqKey[p]] \/ ff'[p] \in pendingFiles
         ]_vars

\* C1 witness: a request lost the race and is about to release its candidate
\* while the winner holds the stored entry
FirstWriterWinsWitness ==
    \E p, q \in Procs :
        /\ p # q
        /\ pc[p] = "set_release"
        /\ pc[q] \in HoldPcs
        /\ ff[q] = ff1[p]
        /\ cand[p] # ff1[p]
        /\ reqKind[p] = reqKind[q]

\* C2: Release is called on an entry only while its readersCount is zero,
\* whoever calls it (the sweep, for indexed and for pending entries, or
\* SetFileToCache for a losing candidate).
NoReleaseWithReaders ==
    [][\A e \in Entries :
            (~released[e] /\ released'[e]) =>
                readersCount[e] = 0 /\ readersCount'[e] = 0]_vars

\* C2 witness: a sweep is about to release an evicted entry while another
\* evicted entry, with a reader, waits on the pending list
NoReleaseWithReadersWitness ==
    /\ swpc = "release"
    /\ \E e \in pendingFiles : readersCount[e] > 0 /\ ~Indexed(e) /\ ~released[e]
    /\ filesToRelease # {}

\* C3: an entry that a sweep finds stale while it has readers is put on the
\* pending list and not released by that sweep; an entry leaves the pending
\* list only when its readersCount is zero, and then towards release; and
\* while sweeps keep running, a pending entry whose readersCount has reached
\* zero is eventually released.
DeferredRelease ==
    /\ [][/\ (swpc = "scan" /\ (swI' # swI \/ swpc' # swpc)) =>
                \A e \in StaleIn(SweepOrder[swI], now) :
                    readersCount[e] > 0 =>
                        e \in pendingFiles' /\ e \notin filesToRelease' /\ ~released'[e]
          /\ \A e \in pendingFiles :
                e \notin pendingFiles' =>
                    readersCount[e] = 0 /\ e \in filesToRelease'
          /\ \A e \in filesToRelease :
                e \notin filesToRelease' => released'[e]
         ]_vars
    /\ \A e \in Entries :
            (e \in pendingFiles /\ readersCount[e] = 0) ~> (released[e] \/ swpc = "stopped")

\* C3 witness: a later sweep has just run its loop over pendingFiles and moved
\* to filesToRelease an entry that an earlier sweep had deferred (entries get
\* on the pending list only with readers) and whose readers have closed since
DeferredReleaseWitness ==
    /\ swpc = "scan"
    /\ swI = 1
    /\ \E e \in filesToRelease : readersCount[e] = 0 /\ ~Indexed(e) /\ ~released[e]

\* C4: GetFileFromCache looks up and increments inside one critical section:
\* a hit adds exactly one to the readersCount of the entry that is indexed at
\* that moment and to no other, a miss changes no readersCount; so whenever
\* no request is inside a critical section (in particular whenever the sweep
\* holds the lock) every entry counts at least the requests that hold it.
GetCountsReference ==
    /\ [](~skipCache =>
            /\ \A p \in Procs :
                pc[p] = "get_crit" =>
                    cacheLock = p /\ ff[p] = cache[reqKind[p]][reqKey[p]]
            /\ (cacheLock \notin Procs =>
                    \A e \in Entries :
                        readersCount[e] >= Cardinality({p \in Procs : RefOf(p) = e})))
    /\ [][\A p \in Procs :
            (pc[p] = "get_crit" /\ pc'[p] # "get_crit") =>
                IF ff[p] # Nil
                THEN /\ readersCount' =
                            [readersCount EXCEPT ![ff[p]] = readersCount[ff[p]] + 1]
                     /\ pc'[p] = "cond"
                     /\ ff'[p] = ff[p]
                ELSE /\ readersCount' = readersCount
                     /\ pc'[p] = "open"
         ]_vars

\* C4 witness: only one entry was ever built and both requests hold it, so
\* one of them got it by a cache hit; the sweep holds the lock and sees both
\* references counted
GetCountsReferenceWitness ==
    /\ nextEntry = 2
    /\ \A p \in Procs : pc[p] \in HoldPcs /\ ff[p] = 1
    /\ readersCount[1] = 2
    /\ cacheLock = Sweeper

\* C5 (as claimed): every path through a reader's Close reaches
\* decReadersCount, and decReadersCount takes exactly one from the entry's
\* readersCount (in-memory cache manager).
CloseDecrements ==
    [][~skipCache =>
        \A p \in Procs :
            /\ (pc[p] = "close" /\ pc'[p] # "close") => pc'[p] = "dec_lock"
            /\ (pc[p] = "dec_crit" /\ pc'[p] # "dec_crit") =>
                    readersCount'[ff[p]] = readersCount[ff[p]] - 1
      ]_vars

\* C6 (as claimed): when no request is in flight, every entry has
\* readersCount 0 (in-memory cache manager).
AllReferencesReturned ==
    (~skipCache /\ \A p \in Procs : pc[p] = "idle") =>
        \A e \in Entries : readersCount[e] = 0

\* C7: readersCount is never negative, with either cache manager.
ReadersCountNonNegative ==
    \A e \in Entries : readersCount[e] >= 0

\* C7 witness: under the no-op cache manager, which never increments, a
\* decrement has read a readersCount of zero and is about to write it back
ReadersCountNonNegativeWitness ==
    /\ skipCache
    /\ \E p \in Procs :
        pc[p] = "dec_crit" /\ tmp[p] = 0 /\ readersCount[ff[p]] = 0

\* C8: each of the four scans of a sweep removes from its map exactly the
\* entries whose age at the scan is strictly greater than the cache duration,
\* with or without readers, and changes no other map and no readersCount; the
\* scans of a sweep visit the four maps in turn, each once, before the lock is
\* dropped; and no other step takes an entry out of a map.
SweepRemovesExactlyStale ==
    [][/\ (swpc = "scan" /\ (swI' # swI \/ swpc' # swpc)) =>
            /\ \A k \in Kinds, key \in Keys :
                cache'[k][key] =
                    IF /\ k = SweepOrder[swI]
                       /\ cache[k][key] # Nil
                       /\ now - ft[cache[k][key]] > CacheDuration
                    THEN Nil
                    ELSE cache[k][key]
            /\ readersCount' = readersCount
            /\ IF swI < Len(SweepOrder)
               THEN swpc' = "scan" /\ swI' = swI + 1 /\ cacheLock' = Sweeper
               ELSE swpc' = "release"
       /\ (swpc = "sleep" /\ swpc' = "scan") => swI' = 1
       /\ \A k \in Kinds, key \in Keys :
            (cache[k][key] # Nil /\ cache'[k][key] = Nil) =>
                swpc = "scan" /\ now - ft[cache[k][key]] > CacheDuration
      ]_vars

\* C8 witness: the scans of a sweep are over; one has evicted a stale entry that still has a reader, and
\* an entry that is not stale is still indexed
SweepRemovesExactlyStaleWitness ==
    /\ swpc = "release"
    /\ \E e \in pendingFiles :
        /\ readersCount[e] > 0
        /\ ~Indexed(e)
        /\ now - ft[e] > CacheDuration
    /\ \E k \in Kinds, key \in Keys :
        /\ cache[k][key] # Nil
        /\ now - ft[cache[k][key]] <= CacheDuration

\* C9: readersCount is read and written only by a goroutine that holds the
\* cache manager's lock, and the value a ++ or -- has read is still the
\* entry's readersCount when it writes: no update is lost.
CountOnlyUnderLock ==
    /\ \A p \in Procs :
        /\ pc[p] \in CritPcs => cacheLock = p
        /\ (pc[p] = "get_crit" /\ ff[p] # Nil) => tmp[p] = readersCount[ff[p]]
        /\ pc[p] = "set_crit" => tmp[p] = readersCount[SetTarget(p)]
        /\ pc[p] = "dec_crit" => tmp[p] = readersCount[ff[p]]
    /\ swpc = "scan" => cacheLock = Sweeper

\* C9 witness: a request is between the read and the write of a decrement
\* while the other request waits to decrement the same entry
CountOnlyUnderLockWitness ==
    \E p, q \in Procs :
        /\ p # q
        /\ pc[p] = "dec_crit"
        /\ pc[q] = "dec_lock"
        /\ ff[p] = ff[q]
        /\ tmp[p] = 2

\* C10 (as claimed): a GetFileFromCache or SetFileToCache that waits for the
\* lock waits only for an operation on its own partition.
WaitsOnlyForOwnPartition ==
    \A p, q \in Procs :
        (/\ ~skipCache
         /\ pc[p] \in {"get", "set"}
         /\ pc[q] \in {"get_crit", "set_crit"}
         /\ cacheLock = q) => reqKind[q] = reqKind[p]

\* C10 (amended): the four maps share the one cacheLock of the cache manager:
\* at most one goroutine at a time is inside GetFileFromCache's,
\* SetFileToCache's or decReadersCount's critical section or inside the
\* sweep's, whatever the partitions they work on, and that goroutine is the
\* owner of the lock.
OneLockForAllPartitions ==
    LET inside == {p \in Procs : pc[p] \in CritPcs}
                    \cup (IF swpc = "scan" THEN {Sweeper} ELSE {})
    IN /\ Cardinality(inside) <= 1
       /\ \A a \in inside : cacheLock = a
       /\ inside = {} => cacheLock = NoOwner

\* C10 witness: a request for one partition waits for the lock while a
\* request for another partition is inside its critical section
OneLockForAllPartitionsWitness ==
    \E p, q \in Procs :
        /\ pc[p] = "get"
        /\ pc[q] = "set_crit"
        /\ cacheLock = q
        /\ reqKind[p] # reqKind[q]
        /\ ~skipCache

\* helpers of the statements about ParseByteRange
AllDigits(buf) == buf # <<>> /\ \A i \in 1 .. Len(buf) : IsDigit(buf[i])
MinOf(x, y) == IF x < y THEN x ELSE y
MaxOf(x, y) == IF x > y THEN x ELSE y

\* C15: ParseByteRange agrees with the reference. A header that does not
\* start with "bytes=" or has no '-' after it is an error; "bytes=a-b" with
\* a < L gives (a, min(b, L-1)), an error when min(b, L-1) < a; "bytes=a-"
\* with a < L gives (a, L-1); a start a >= L is an error; "bytes=-n" gives
\* (max(0, L-n), L-1); and the five documented examples come out as written.
ParseByteRangeAgrees ==
    pbrResult # NotCalled =>
        LET h == byteRange
            L == pbrLength
            r == pbrResult
            hasUnits == Len(h) >= Len(BytesEq)
                            /\ \A i \in 1 .. Len(BytesEq) : h[i] = BytesEq[i]
            rest == SubSeq(h, Len(BytesEq) + 1, Len(h))
        IN
        /\ ~hasUnits => r.err # "nil"
        /\ (hasUnits /\ \A i \in 1 .. Len(rest) : rest[i] # "-") => r.err # "nil"
        /\ hasUnits =>
            \A i \in 1 .. Len(rest) :
                rest[i] = "-" =>
                    LET a == SubSeq(rest, 1, i - 1)
                        b == SubSeq(rest, i + 1, Len(rest))
                    IN
                    /\ (AllDigits(a) /\ AllDigits(b)) =>
                        IF UintValue(a) < L /\ MinOf(UintValue(b), L - 1) >= UintValue(a)
                        THEN r = RangeOk(UintValue(a), MinOf(UintValue(b), L - 1))
                        ELSE r.err # "nil"
                    /\ (AllDigits(a) /\ b = <<>>) =>
                        IF UintValue(a) < L
                        THEN r = RangeOk(UintValue(a), L - 1)
                        ELSE r.err # "nil"
                    /\ (a = <<>> /\ AllDigits(b)) =>
                        r = RangeOk(MaxOf(0, L - UintValue(b)), L - 1)
        /\ (h = BytesEq \o <<"0", "-", "4", "9", "9">> /\ L = 1000) =>
                r = RangeOk(0, 499)
        /\ (h = BytesEq \o <<"5", "0", "0", "-">> /\ L = 1000) =>
                r = RangeOk(500, 999)
        /\ (h = BytesEq \o <<"-", "1", "0", "0">> /\ L = 1000) =>
                r = RangeOk(900, 999)
        /\ (h = BytesEq \o <<"1", "0", "0", "0", "-", "1", "0", "0", "1">> /\ L = 1000) =>
                r.err # "nil"
        /\ (h = BytesEq \o <<"5", "0", "0", "-", "1", "0", "0">> /\ L = 1000) =>
                r.err # "nil"

\* C15 witness: "bytes=1-13" for a content of four bytes has been parsed, and
\* its end was clamped to the last byte
ParseByteRangeAgreesWitness ==
    /\ byteRange = BytesEq \o <<"1", "-", "1", "3">>
    /\ pbrLength = 4
    /\ pbrResult = RangeOk(1, 3)

\* C16 (as claimed): whenever ParseByteRange returns without an error, the
\* result is a valid inclusive range, 0 <= start <= end <= L - 1.
ParsedRangeIsValid ==
    (pbrResult # NotCalled /\ pbrResult.err = "nil") =>
        /\ 0 <= pbrResult.startPos
        /\ pbrResult.startPos <= pbrResult.endPos
        /\ pbrResult.endPos <= pbrLength - 1

\* C17 (as claimed): a HEAD request that got past the range check (a GET
\* with the same headers is answered 200 or 206) gets no body stream, its
\* reader is closed when handleRequest returns, and its Content-Length is the
\* length the GET would stream.
HeadMatchesGet ==
    (hpc = "returned" /\ request.isHead /\ locals.emitted) =>
        /\ ~response.bodyStream
        /\ locals.reader = "closed"
        /\ response.statusCode \in {StatusOK, StatusPartialContent}
        /\ response.contentLength =
            IF handler.acceptByteRange /\ Len(request.byteRange) > 0
            THEN LET pr == ParseByteRange(request.byteRange, served.contentLength)
                 IN pr.endPos - pr.startPos + 1
            ELSE served.contentLength

\* C18: a request whose If-Modified-Since is equal to or after the entry's
\* last-modified time is answered 304 without a body and without a reader,
\* and the entry's readersCount is what it was before the request.
NotModifiedGivesBack ==
    (/\ hpc = "returned"
     /\ locals.hasEntry
     /\ Len(request.ifModifiedSince) > 0
     /\ request.ifModifiedSince[1] >= served.lastModified) =>
        /\ response.statusCode = StatusNotModified
        /\ ~response.bodyStream
        /\ response.contentLength = 0
        /\ locals.reader = "none"
        /\ served.readersCount = locals.readersBefore

\* C18 witness: the in-memory cache manager counted the request on an entry
\* that another request holds, and the request, whose If-Modified-Since is
\* the entry's last-modified time, was answered 304
NotModifiedGivesBackWitness ==
    /\ hpc = "returned"
    /\ ~skipCache
    /\ request.ifModifiedSince = <<served.lastModified>>
    /\ locals.readersBefore = 1
    /\ served.readersCount = 1
    /\ response.statusCode = StatusNotModified

\* C19: an encoding is negotiated only without a Range header and with
\* compression enabled, and it is the first of br, zstd, gzip that is enabled
\* and accepted; otherwise none is, and the kind is the default one; the
\* partition consulted is the one of the negotiated encoding.
EncodingNegotiated ==
    hpc \notin {"off", "negotiate"} =>
        LET order == <<"br", "zstd", "gzip">>
            enabled == [br |-> handler.compressBrotli,
                        zstd |-> handler.compressZstd,
                        gzip |-> TRUE]
            kind == [br |-> "brotli", zstd |-> "zstd", gzip |-> "gzip"]
            usable == {i \in 1 .. 3 :
                        enabled[order[i]] /\ order[i] \in request.acceptEncoding}
            negotiates == /\ Len(request.byteRange) = 0
                          /\ handler.compress
                          /\ usable # {}
            first == CHOOSE i \in usable : \A j \in usable : i <= j
        IN
        /\ locals.mustCompress = negotiates
        /\ locals.fileEncoding = IF negotiates THEN order[first] ELSE ""
        /\ locals.fileCacheKind = IF negotiates THEN kind[order[first]] ELSE "default"
        /\ locals.consulted # "" =>
                locals.consulted = IF negotiates THEN kind[order[first]] ELSE "default"

\* C19 witness: brotli is off, the request accepts all three encodings, and
\* the zstd partition was consulted
EncodingNegotiatedWitness ==
    /\ hpc = "conditional"
    /\ handler.compress /\ ~handler.compressBrotli /\ handler.compressZstd
    /\ request.acceptEncoding = Encodings
    /\ locals.consulted = "zstd"

FileCritPcs == {"c_stat", "c_write", "c_rename", "c_openart", "c_unlock"}

OneCompressorPerPath ==
    \A p, q \in Procs :
        /\ (p # q /\ compReq[p].pc \in FileCritPcs /\ compReq[q].pc \in FileCritPcs)
            => compReq[p].path # compReq[q].path
        /\ (compReq[p].flock # NoOwner /\ compReq[q].flock # NoOwner)
            => (compReq[p].flock = compReq[q].flock
                    <=> compReq[p].path = compReq[q].path)
        /\ (compReq[p].pc = "c_lock" /\ mutexOwner[compReq[p].flock] = q)
            => compReq[q].path = compReq[p].path
OneCompressorPerPathWitness ==
    \E p, q \in Procs :
        /\ p # q
        /\ compReq[p].path = compReq[q].path
        /\ compReq[p].pc = "c_write"
        /\ compReq[q].pc = "c_lock"
        /\ mutexOwner[compReq[q].flock] = p

\* C13 (as claimed): a request that meets a compressed file on the disk
\* removes it and compresses the source again exactly when the source's
\* modification time is later than the compressed file's by a second or
\* more.
RecompressIffStale ==
    \A p \in Procs :
        (compReq[p].pc = "c_done" /\ compReq[p].found # NoFile) =>
            (compReq[p].removed
                <=> IsStaleArtifact(srcModTime[compReq[p].path], compReq[p].found[1]))

\* C14 (as claimed): a request whose compressed file cannot be created for
\* want of write permission, its directory under a separate compression
\* root included, is answered from the uncompressed file with status 200.
NoPermissionServesUncompressed ==
    \A p \in Procs :
        (compReq[p].pc = "c_done"
            /\ compReq[p].err \in {"errNoCreatePermission", "mkdir: permission denied"})
            => (compReq[p].statusCode = StatusOK /\ ~compReq[p].compressed)

\* C24: with SkipCache the cache manager is the no-op one: no sweep is
\* started, the maps stay empty whatever is done, GetFileFromCache reports a
\* miss, and SetFileToCache hands back the candidate it was given, not
\* released and not stored.
NoopCacheStoresNothing ==
    /\ [](skipCache =>
            /\ swpc = "off"
            /\ \A k \in Kinds, key \in Keys : cache[k][key] = Nil
            /\ pendingFiles = {} /\ filesToRelease = {})
    /\ [][skipCache =>
            \A p \in Procs :
                /\ (pc[p] = "get" /\ pc'[p] # "get") =>
                        (pc'[p] = "open" /\ ff'[p] = Nil)
                /\ (pc[p] = "set" /\ pc'[p] # "set") =>
                        /\ ff'[p] = cand[p]
                        /\ ~released'[cand[p]]
                        /\ readersCount' = readersCount]_vars
NoopCacheStoresNothingWitness ==
    /\ skipCache
    /\ \E p, q \in Procs :
        /\ pc[p] = "cond" /\ pc[q] = "cond"
        /\ reqKind[p] = reqKind[q] /\ reqKey[p] = reqKey[q]
        /\ ff[p] # Nil /\ ff[q] # Nil /\ ff[p] # ff[q]

\* C25: a response that sends the entry carries Content-Encoding and
\* Vary: Accept-Encoding exactly when the entry's compressed flag is set,
\* and the Content-Encoding is then the encoding negotiated for the request;
\* an uncompressed entry of an encoding's partition goes out without the
\* header, on the miss that made it as on a later hit.
ContentEncodingIffCompressed ==
    (hpc = "returned" /\ response.statusCode \in {StatusOK, StatusPartialContent}) =>
        /\ (response.contentEncoding # "") <=> served.compressed
        /\ response.vary <=> served.compressed
        /\ served.compressed =>
            /\ response.contentEncoding = locals.fileEncoding
            /\ locals.fileEncoding =
                NegotiateEncoding(handler, request.byteRange, request.acceptEncoding)
            /\ locals.consulted = KindOf(response.contentEncoding)
ContentEncodingIffCompressedWitness ==
    /\ hpc = "returned"
    /\ response.statusCode = StatusOK
    /\ locals.hit
    /\ locals.consulted = "gzip"
    /\ ~served.compressed
    /\ response.contentEncoding = ""
    /\ ~response.vary

\* the positions of the slashes of a path, and the suffix of a path from its
\* position i on (the whole path for i = 1)
SlashPositions(path) == {i \in 1 .. Len(path) : path[i] = "/"}
SuffixFrom(path, i) == SubSeq(path, i, Len(path))
IsSuffixOf(s, path) == \E i \in 1 .. (Len(path) + 1) : s = SuffixFrom(path, i)

\* C29: the rewriter of NewPathSlashesStripper(n) returns the path from its
\* (n+1)-th slash on, i.e. without its first n segments, and the empty path
\* when the path has fewer than n+1 segments; the rewriter of
\* NewPathPrefixStripper(k) returns the path without its first k bytes when
\* it has k bytes, and the path itself otherwise; both return a suffix of
\* the path; "/foo/bar" gives "/bar" for n = 1, "" for n = 2 and "o/bar" for
\* k = 3.
StrippersAgree ==
    (front.pc # "rewrite" /\ pathRewrite[1] \in {"slashes", "prefix"}) =>
        LET n == pathRewrite[2]
            slashes == SlashPositions(ctxPath)
        IN
        /\ IsSuffixOf(front.path, ctxPath)
        /\ pathRewrite[1] = "slashes" =>
            IF Cardinality(slashes) < n + 1
            THEN front.path = <<>>
            ELSE \E i \in slashes :
                    /\ Cardinality({j \in slashes : j < i}) = n
                    /\ front.path = SuffixFrom(ctxPath, i)
        /\ pathRewrite[1] = "prefix" =>
            IF Len(ctxPath) >= n
            THEN /\ Len(front.path) = Len(ctxPath) - n
                 /\ front.path = SuffixFrom(ctxPath, n + 1)
            ELSE front.path = ctxPath
        /\ ctxPath = strFooBar =>
            /\ pathRewrite = <<"slashes", 1>> => front.path = <<"/", "b", "a", "r">>
            /\ pathRewrite = <<"slashes", 2>> => front.path = <<>>
            /\ pathRewrite = <<"prefix", 3>> => front.path = <<"o", "/", "b", "a", "r">>
StrippersAgreeWitness ==
    /\ front.pc # "rewrite"
    /\ ctxPath = strFooBar
    /\ pathRewrite = <<"slashes", 2>>
    /\ front.path = <<>>

\* the request got past the two checks of its path
PastChecks == front.pc \notin {"rewrite", "checks", "panicked"}
\* the handler returned from one of the two checks, with this status
RejectedWith(statusCode) ==
    /\ front.pc = "returned"
    /\ front.statusCode = statusCode
    /\ front.lookups = 0
    /\ front.opens = 0
    /\ ~front.inserted

\* C22 (as claimed): a request whose path, as ctx.Path() gives it, holds a
\* zero byte is answered 400, and one whose rewritten path holds "/../" is
\* answered 500, both before any cache lookup or open, the zero byte first;
\* without a rewriter "/../" is not looked for.
RequestPathChecked ==
    PastChecks =>
        /\ Contains(ctxPath, <<NulByte>>) => RejectedWith(StatusBadRequest)
        /\ (~Contains(ctxPath, <<NulByte>>) /\ pathRewrite[1] # "none"
                /\ Contains(front.path, strSlashDotDotSlash))
            => RejectedWith(StatusInternalServerError)
        /\ pathRewrite[1] = "none" => front.statusCode # StatusInternalServerError

\* C22 (amended): both checks are made on the path handleRequest goes on
\* with, which is the rewriter's result when there is a rewriter: with a zero
\* byte in it the answer is 400, otherwise with "/../" in it and a rewriter
\* configured 500, both before any cache lookup or open; every other request
\* goes on to the cache lookup, so that without a rewriter "/../" is not
\* looked for.
ServedPathChecked ==
    PastChecks =>
        LET nul == Contains(front.path, <<NulByte>>)
            dots == pathRewrite[1] # "none" /\ Contains(front.path, strSlashDotDotSlash)
        IN
        /\ nul => RejectedWith(StatusBadRequest)
        /\ (~nul /\ dots) => RejectedWith(StatusInternalServerError)
        /\ (~nul /\ ~dots) =>
            /\ front.pc = "lookup" \/ front.lookups = 1
            /\ front.statusCode \notin {StatusBadRequest, StatusInternalServerError}
ServedPathCheckedWitness ==
    /\ pathRewrite[1] = "custom"
    /\ Contains(front.path, <<NulByte>>)
    /\ Contains(front.path, strSlashDotDotSlash)
    /\ RejectedWith(StatusBadRequest)

\* C23: a request whose open ends with an error other than "directory index
\* required" is answered 404: without a PathNotFound handler with the
\* message "Cannot open requested path", with one by setting the status to
\* 404 and then calling the handler; no entry is put into the cache.
OpenFailureIsNotFound ==
    (front.opens = 1 /\ front.kind # "dir" /\ front.err # "nil") =>
        /\ front.pc \in {"pathNotFound", "returned"}
        /\ ~front.inserted
        /\ front.opened = "none"
        /\ ~front.pathNotFound =>
            /\ front.pc = "returned"
            /\ front.statusCode = StatusNotFound
            /\ front.message = "Cannot open requested path"
        /\ front.pathNotFound =>
            /\ front.pc = "pathNotFound" => front.statusCode = StatusNotFound
            /\ front.pc = "returned" => front.handlerSaw = StatusNotFound
OpenFailureIsNotFoundWitness ==
    /\ front.pc = "returned"
    /\ front.kind = "unreadable"
    /\ front.err = "ErrPermission"
    /\ front.pathNotFound
    /\ front.handlerSaw = StatusNotFound
    /\ front.statusCode = StatusOK
    /\ ~front.inserted

\* C21 (as claimed): a directory requested without the trailing slash is
\* answered 302 with the path plus "/"; requested with it, the answer is the
\* first of the index names, in the order of the list, that is a file of the
\* directory, without one the generated listing when GenerateIndexPages is
\* set, and 403 otherwise.
DirectoryIndexServed ==
    (front.kind = "dir" /\ front.pc \in {"returned", "setcache", "serve"}) =>
        IF ~front.hasTrailingSlash
        THEN /\ front.statusCode = StatusFound
             /\ front.location = front.path \o <<"/">>
        ELSE LET files == {i \in 1 .. Len(front.indexKinds) :
                                front.indexKinds[i] = "file"}
             IN
             IF files # {}
             THEN /\ front.opened = "index"
                  /\ front.index \in files
                  /\ \A i \in files : front.index <= i
             ELSE IF front.generateIndexPages
             THEN front.opened = "listing"
             ELSE front.statusCode = StatusForbidden

\* the request went through compressAndOpenFSFile and is back from it
BackFromCompressAndOpen(p) ==
    /\ compReq[p].pc \in {"c_ret", "c_done"}
    /\ compReq[p].found = NoFile \/ compReq[p].removed

\* C26: compressAndOpenFSFile answers "directory index required" for a
\* directory, and for a file that carries the encoding's suffix, is larger
\* than 8 MiB or fails the compressibility probe an entry with compressed =
\* false that is the source file; no compressed file is created for such a
\* source and no per-path lock is taken.
UncompressibleServedAsIs ==
    \A f \in CompPaths :
        compCfg.srcKind[f] # "compressible" =>
            /\ compressions[f] = 0
            /\ artifact[TmpPath(f)] = NoFile
            /\ filesLockMap[f] = NoOwner
            /\ \A p \in Procs :
                (compReq[p].path = f /\ BackFromCompressAndOpen(p)) =>
                    /\ compReq[p].flock = NoOwner
                    /\ ~compReq[p].wrote
                    /\ ~compReq[p].inMemory
                    /\ compReq[p].osCalls \subseteq {"os.Remove"}
                    /\ ~compReq[p].compressed
                    /\ IF compCfg.srcKind[f] = "dir"
                       THEN compReq[p].err = "errDirIndexRequired"
                       ELSE /\ compReq[p].err = "nil"
                            /\ compReq[p].servedModTime = srcModTime[f]
                            /\ compReq[p].pc = "c_done" =>
                                    compReq[p].statusCode = StatusOK
UncompressibleServedAsIsWitness ==
    \E p \in Procs :
        /\ compReq[p].pc = "c_done"
        /\ compCfg.srcKind[compReq[p].path] = "big"
        /\ compReq[p].found = NoFile
        /\ ~compReq[p].compressed
        /\ compReq[p].statusCode = StatusOK

\* C27 (as claimed): with another fs.FS than the OS filesystem a compressed
\* entry is a buffer in memory, and no request creates, renames or removes a
\* file of the operating system.
VirtualFSLeavesDiskAlone ==
    ~compCfg.isOS =>
        \A p \in Procs :
            /\ compReq[p].osCalls = {}
            /\ (compReq[p].compressed /\ compReq[p].found = NoFile)
                => compReq[p].inMemory

\* the file at the final path of every compressed artifact is whole: either
\* there is none or it is a complete compressed copy, and every file a
\* request opened there was complete
FinalPathComplete ==
    /\ \A f \in CompPaths :
        artifact[f] = NoFile \/ artifact[f][2] = "complete"
    /\ \A p \in Procs :
        compReq[p].found = NoFile \/ compReq[p].found[2] = "complete"

\* a compressed artifact that was renamed into place in this run carries the
\* modification time of its source
RenamedWithSourceModTime ==
    \A f \in CompPaths :
        (compressions[f] >= 1 /\ artifact[f] # NoFile)
            => artifact[f] = <<srcModTime[f], "complete">>

\* a request that started after the compressed artifact of its file had
\* been renamed into place does not compress the file again
FollowerDoesNotRecompress ==
    \A p \in Procs :
        (compReq[p].pc # "c_idle" /\ compReq[p].sawCompressions >= 1)
            => ~compReq[p].wrote

\* C28 (as claimed): the compressed artifact appears under its final name
\* only by the rename of a completely written temporary file that carries
\* the source's modification time, so the final path is absent or complete
\* in every state, no request opens a partial artifact, and a request that
\* follows with an unchanged source does not compress again.
ArtifactRenamedOnce ==
    /\ FinalPathComplete
    /\ RenamedWithSourceModTime
    /\ FollowerDoesNotRecompress

\* without a stale compressed file next to the source at the start no
\* request removes anything, and a following request does not compress again
FollowerDoesNotRecompressUnlessRemoved ==
    (\A f \in CompPaths :
        compCfg.sameRoot => ~(compCfg.initial[f] # NoFile
                /\ IsStaleArtifact(srcModTime[f], compCfg.initial[f][1])))
        => FollowerDoesNotRecompress

\* the positions at which a goroutine is inside Release
ReleasePcs == {"release", "release_unlock", "sweep_release", "sweep_release_unlock"}

\* the goroutine that owns the lock g is about to acquire, NoOwner when the
\* lock is free or g is not about to acquire one
AwaitedOwner(g) ==
    LET at == lockGo[g].pc IN
    IF at \in {"get", "set"} /\ ~lockHeap.skipCache THEN lockOwner.cacheLock
    ELSE IF at = "dec" THEN lockOwner.cacheLock
    ELSE IF at = "idle" /\ g = Sweeper /\ ~lockHeap.skipCache
        THEN lockOwner.cacheLock
    ELSE IF at = "flock" THEN lockOwner.flock[lockGo[g].path]
    ELSE IF at \in {"release", "serve", "close"} /\ lockHeap.big[lockGo[g].ff]
        THEN lockOwner.bigFilesLock[lockGo[g].ff]
    ELSE IF at = "sweep_release"
        THEN IF \E e \in lockHeap.filesToRelease :
                    ~lockHeap.big[e] \/ lockOwner.bigFilesLock[e] = NoOwner
             THEN NoOwner
             ELSE IF lockHeap.filesToRelease = {} THEN NoOwner
             ELSE lockOwner.bigFilesLock[CHOOSE e \in lockHeap.filesToRelease : TRUE]
    ELSE NoOwner

\* a request in progress, or the sweep inside cleanCache
InProgress(g) ==
    IF g = Sweeper THEN lockGo[g].pc # "idle"
    ELSE lockGo[g].pc # "idle"
            /\ ~(lockGo[g].pc \in {"open", "flock_unlock"}
                    /\ lockHeap.constructed = MaxLockRequests)

\* C30: no goroutine holds two locks of the subsystem (cache lock, per-path
\* compression lock, an entry's bigFiles lock) at a time, a goroutine inside
\* Release does not hold the cache lock, and no interleaving of requests and
\* sweeps deadlocks: a goroutine in the middle of its work can take a step,
\* or the owner of the lock it waits for holds no other claim and can.
OneLockAtATime ==
    /\ \A g \in Goroutines : HeldCount(g) <= 1
    /\ \A g \in Goroutines :
        lockGo[g].pc \in ReleasePcs => lockOwner.cacheLock # g
    /\ \A g \in Goroutines :
        InProgress(g) =>
            \/ ENABLED LkStep(g)
            \/ /\ AwaitedOwner(g) \in Goroutines \ {g}
               /\ AwaitedOwner(AwaitedOwner(g)) = NoOwner
               /\ ENABLED LkStep(AwaitedOwner(g))

\* a goroutine inside Release holds the bigFilesLock of a file while another
\* one is inside the cache lock and a third is blocked at the cache lock
OneLockAtATimeWitness ==
    \E g, h \in Goroutines :
        /\ g # h
        /\ lockGo[g].pc \in {"release_unlock", "sweep_release_unlock"}
        /\ lockOwner.cacheLock = h
        /\ \E w \in Goroutines \ {g, h} :
            /\ AwaitedOwner(w) = h
            /\ ~ENABLED LkStep(w)

\* the compressed file lies next to the source at the start and is older
\* than the source by a second or more
StaleAtStart(f) ==
    /\ compCfg.isOS
    /\ compCfg.sameRoot
    /\ compCfg.initial[f] # NoFile
    /\ IsStaleArtifact(srcModTime[f], compCfg.initial[f][1])

\* C33 (as claimed): when requests find the compressed file of a source
\* stale at the same time, the file that one of them re-creates is not
\* deleted by another, and the source is compressed again once only.
StaleRecompressedOnce ==
    \A f \in CompPaths :
        StaleAtStart(f) =>
            /\ compressions[f] <= 1
            /\ compressions[f] >= 1 => artifact[f] # NoFile

\* a request with a Range header to a handler without byte-range support
RangeIgnored ==
    /\ hpc = "returned"
    /\ ~handler.acceptByteRange
    /\ Len(request.byteRange) > 0

FailureStatuses ==
    {StatusBadRequest, StatusInternalServerError, StatusFound, StatusForbidden,
     StatusNotFound}

\* C37: a request answered 400, 500 for a path with "/../", 302, 403 or 404
\* has taken no reference and inserted nothing: its only call of the cache
\* manager, if any, was a GetFileFromCache that missed (none at all for 400
\* and 500); SetFileToCache is called only with a file, an index file or a
\* directory listing that was opened without error.
FailureLeavesCacheAlone ==
    /\ (front.statusCode \in FailureStatuses \/ front.err # "nil") =>
        /\ ~front.inserted
        /\ ~front.hit
        /\ front.pc \notin {"setcache", "serve"}
        /\ front.opened = "none" \/ front.err # "nil"
        /\ front.statusCode \in {StatusBadRequest, StatusInternalServerError}
            => front.lookups = 0
    /\ (front.inserted \/ front.pc = "setcache") =>
        /\ front.opened \in {"file", "index", "listing"}
        /\ front.err = "nil"
        /\ front.lookups = 1
        /\ ~front.hit

\* C37 witness: a directory whose first index name cannot be read was
\* answered 403 after a miss, nothing inserted
FailureLeavesCacheAloneWitness ==
    /\ front.pc = "returned"
    /\ front.statusCode = StatusForbidden
    /\ front.kind = "dir"
    /\ front.index = 1
    /\ front.lookups = 1
    /\ ~front.hit
    /\ ~front.inserted

\* the fsFile objects built so far whose file is still open
OpenEntries == {e \in Entries : e < nextEntry /\ ~released[e]}

\* C35 (as claimed): with the no-op cache manager the files that are open
\* belong to requests that are still being served, so that their number does
\* not grow with the number of requests served.
NoopHandlesClosed ==
    skipCache =>
        Cardinality(OpenEntries) <= Cardinality({p \in Procs : pc[p] # "idle"})

\* with the in-memory cache manager the files that are open are cached,
\* pending, about to be released, or belong to a request being served
CachedHandlesAccounted ==
    ~skipCache =>
        \A e \in OpenEntries :
            \/ \E k \in ReqKinds, key \in Keys : cache[k][key] = e
            \/ e \in pendingFiles \cup filesToRelease
            \/ \E p \in Procs : e \in {ff[p], cand[p]}

\* the bytes a use of the reader has to deliver
ExpectedBytes ==
    IF reading.ranged
    THEN Positions(reading.startPos, reading.endPos + 1)
    ELSE Positions(0, reading.length)

\* C31: a reader read to its end, by Read or by WriteTo, has delivered the
\* bytes startPos .. endPos of the entry, endPos - startPos + 1 of them, after
\* UpdateByteRange(startPos, endPos), and the contentLength bytes of the
\* entry without it; before the end it has delivered a prefix of them.
ReaderDeliversRange ==
    reading.pc \in {"ready", "eof"} =>
        /\ Len(reading.out) <= Len(ExpectedBytes)
        /\ reading.out = SubSeq(ExpectedBytes, 1, Len(reading.out))
        /\ reading.pc = "eof" =>
            /\ reading.out = ExpectedBytes
            /\ reading.ranged =>
                Len(reading.out) = RangeContentLength(reading.startPos, reading.endPos)
            /\ ~reading.ranged => Len(reading.out) = reading.length

\* C31 witness: the second use of a big reader, whose first use was cut
\* short, delivered bytes 1 .. 2 of a file of three bytes through WriteTo
ReaderDeliversRangeWitness ==
    /\ reading.pc = "eof"
    /\ reading.kind = "big"
    /\ reading.use = 2
    /\ reading.method = "WriteTo"
    /\ reading.ranged
    /\ reading.out = <<1, 2>>
    /\ reading.length = 3

\* the readers that wait in a pool
PooledReaders ==
    poolMisc.smallPool \cup UNION {Range(poolFile[e].bigFiles) : e \in PoolEntries}

\* the request holds a reader that NewReader has just returned
JustOpened(p) == poolReq[p].pc = "opened"

\* C32: a pooled reader carries no state of its previous use: a bigFileReader
\* in an entry's pool, and one just taken from it, is at offset 0 and reads
\* the file itself, not the io.LimitedReader of a byte range; a pooled
\* fsSmallFileReader has startPos 0, and one just taken covers the whole
\* entry; no reader is held by two requests, or held while it is in a pool.
PooledReaderIsFresh ==
    /\ \A e \in PoolEntries : \A i \in Range(poolFile[e].bigFiles) :
        poolObj[i].fields.offset = 0 /\ ~poolObj[i].fields.limited
    /\ \A i \in poolMisc.smallPool : poolObj[i].fields.startPos = 0
    /\ \A p \in Procs : JustOpened(p) =>
        LET cur == poolObj[poolReq[p].r].fields IN
        IF poolFile[poolReq[p].ff].big
        THEN cur.offset = 0 /\ ~cur.limited
             /\ BigReadCount(cur, PoolFileLen, PoolFileLen) = PoolFileLen
        ELSE cur.startPos = 0 /\ cur.endPos = PoolFileLen
    /\ \A p \in Procs : poolReq[p].r # Nil =>
        /\ poolReq[p].r \notin PooledReaders
        /\ \A q \in Procs \ {p} : poolReq[q].r # poolReq[p].r

\* a request has just taken, out of the pool of a big entry, a reader whose
\* previous use was a byte range that was not read to its end
PooledReaderIsFreshWitness ==
    \E p \in Procs :
        /\ JustOpened(p)
        /\ poolFile[poolReq[p].ff].big
        /\ poolObj[poolReq[p].r].fields.n > 0

\* the readers of entry e whose handle is open
OpenHandlesOf(e) ==
    {i \in PoolReaders : poolObj[i].ff = e /\ poolObj[i].handle = "open"}

\* C36: when an entry is released every handle of it is closed: an entry the
\* sweep found without readers has its open reader handles in ff.bigFiles,
\* and a released entry has neither ff.f nor a reader handle open, in the
\* pool or outside of it.
ReleasedEntryHandlesClosed ==
    \A e \in PoolEntries :
        /\ e \in poolMisc.filesToRelease =>
            OpenHandlesOf(e) \subseteq Range(poolFile[e].bigFiles)
        /\ poolFile[e].released =>
            ~poolFile[e].fOpen /\ OpenHandlesOf(e) = {}

\* a big entry was released with a reader in its pool
ReleasedEntryHandlesClosedWitness ==
    \E e \in PoolEntries :
        /\ poolFile[e].released
        /\ poolFile[e].big
        /\ \E i \in Range(poolFile[e].bigFiles) : poolObj[i].handle = "closed"

\* openFSFile has returned an error
OpenFailed == opening.pc = "ret" /\ opening.ret = "err"

\* C34: a call of openFSFile that returns an error leaves no handle open.
FailedOpenLeavesNoHandle == OpenFailed => opening.open = {}

====
